---- MODULE Spec2Model ----
(***************************************************************************)
(* The Google Maps tool server: the three input schemas                    *)
(* (models/maps-models.ts), the upstream client GooglePlacesAPI            *)
(* (services/google-places-api.ts, the revision with the status taxonomy)  *)
(* and the CallToolRequestSchema handler of createMcpServer (server.ts).   *)
(*                                                                         *)
(* An invocation is a run of the handler.  It runs synchronously up to its *)
(* single await on the client (action Invoke), is suspended while the      *)
(* HTTP request is in flight, and resumes with whatever the upstream did   *)
(* (action Reply), which runs the rest of the client method and the rest   *)
(* of the handler.  Texts are TLA+ strings, built as the code builds them. *)
(***************************************************************************)
EXTENDS Integers, Sequences, FiniteSets, TLC

VARIABLES
    pc,         \* per invocation: "idle", "awaiting" (the client method suspended at its
                \* await), "returned" (the handler suspended, the outcome ready) or "done"
    req,        \* request.params: [name, args]
    validated,  \* the schema's parse result (the handler's `validated`)
    call,       \* the HTTP request the client has in flight
    nreq,       \* HTTP requests issued by this invocation
    reply,      \* what the upstream did with the request
    outcome,    \* the client method's return value (the handler's `result`)
    body,       \* the handler's responseText, before truncateIfNeeded
    resp,       \* the handler's return value
    escaped,    \* TRUE when an exception left the handler
    placesApi   \* the GooglePlacesAPI instance: apiKey, baseUrl, placesBaseUrl

vars == <<pc, req, validated, call, nreq, reply, outcome, body, resp, escaped, placesApi>>

-----------------------------------------------------------------------------
(* Bounds of the model *)

\* upstream geocoding bodies carry 0..MaxResults results
MaxResults == 4
\* upstream distance-matrix bodies are grids of up to MaxGrid x MaxGrid
MaxGrid == 2

(* Program constants *)

CHARACTER_LIMIT == 25000
GeocodeSliceEnd == 3
AddressMaxLength == 500
MaxOrigins == 10
MaxDestinations == 10

-----------------------------------------------------------------------------
(* Strings *)

RECURSIVE Repeat(_, _)
\* '='.repeat(50) and the long texts of the inputs
Repeat(s, n) ==
    IF n <= 0 THEN ""
    ELSE IF n % 2 = 0 THEN Repeat(s \o s, n \div 2)
    ELSE s \o Repeat(s, n - 1)

RECURSIVE Join(_, _)
\* Array.prototype.join
Join(seq, sep) ==
    IF Len(seq) = 0 THEN ""
    ELSE IF Len(seq) = 1 THEN seq[1]
    ELSE LET half == Len(seq) \div 2 IN
         Join(SubSeq(seq, 1, half), sep) \o sep \o Join(SubSeq(seq, half + 1, Len(seq)), sep)

\* String.prototype.substring(0, n)
Substring0(s, n) == IF n >= Len(s) THEN s ELSE SubSeq(s, 1, n)

\* a number in a template literal
NumStr(n) == ToString(n)

Rule50 == Repeat("=", 50)

\* optional values: undefined, or a value
Undefined == [has |-> FALSE]
Some(x) == [has |-> TRUE, v |-> x]

\* a string or undefined in a template literal
OptStr(o) == IF o.has THEN o.v ELSE "undefined"

-----------------------------------------------------------------------------
(* JSON.stringify(value, null, 2).  A JSON value is an atom (its token), an *)
(* array or an object (members in insertion order; a member whose value is *)
(* undefined is left out, as JSON.stringify leaves it out).  The strings of *)
(* the model hold no character that JSON escapes.                          *)

JAtom(tok) == [k |-> "atom", tok |-> tok]
JString(s) == JAtom("\"" \o s \o "\"")
JNumber(n) == JAtom(NumStr(n))
JNull == JAtom("null")
JArray(items) == [k |-> "arr", items |-> items]
JObject(members) == [k |-> "obj", members |-> members]
JMember(key, val) == [key |-> key, val |-> val]
\* an optional member: present only when the value is not undefined
JOptMember(key, has, val) == IF has THEN <<JMember(key, val)>> ELSE <<>>

RECURSIVE JsonStringify(_, _)
JsonStringify(v, indent) ==
    LET inner == indent \o "  " IN
    CASE v.k = "atom" -> v.tok
      [] v.k = "arr" ->
            IF Len(v.items) = 0 THEN "[]"
            ELSE "[\n"
                 \o Join([n \in 1..Len(v.items) |->
                            inner \o JsonStringify(v.items[n], inner)], ",\n")
                 \o "\n" \o indent \o "]"
      [] v.k = "obj" ->
            IF Len(v.members) = 0 THEN "{}"
            ELSE "{\n"
                 \o Join([n \in 1..Len(v.members) |->
                            inner \o "\"" \o v.members[n].key \o "\": "
                            \o JsonStringify(v.members[n].val, inner)], ",\n")
                 \o "\n" \o indent \o "}"

-----------------------------------------------------------------------------
(* The argument bag: request.params.arguments.  Either undefined, or an    *)
(* object; a field is undefined (not a key of the object), a string, a     *)
(* number or an array of strings and numbers.                              *)

FieldOrder == <<"address", "place_id", "query", "origins", "destinations",
                "mode", "response_format", "verbose">>
FieldNames == {FieldOrder[n] : n \in 1..Len(FieldOrder)}

VUndef == [t |-> "undefined", s |-> "", a |-> <<>>]
VStr(s) == [t |-> "string", s |-> s, a |-> <<>>]
VNum(n) == [t |-> "number", s |-> NumStr(n), a |-> <<>>]
VArr(a) == [t |-> "array", s |-> "", a |-> a]
\* an array of strings
VStrings(ss) == VArr([n \in 1..Len(ss) |-> VStr(ss[n])])

NoArgs == [isObject |-> FALSE, f |-> [n \in FieldNames |-> VUndef]]
Args(f) == [isObject |-> TRUE, f |-> f]
EmptyFields == [n \in FieldNames |-> VUndef]

\* the keys of the object, in insertion order
RECURSIVE KeysFrom(_, _)
KeysFrom(args, n) ==
    IF n > Len(FieldOrder) THEN <<>>
    ELSE (IF args.f[FieldOrder[n]].t # "undefined" THEN <<FieldOrder[n]>> ELSE <<>>)
         \o KeysFrom(args, n + 1)
Keys(args) == KeysFrom(args, 1)

SelectSeqIn(seq, S) == SelectSeq(seq, LAMBDA x : x \in S)
SelectSeqNotIn(seq, S) == SelectSeq(seq, LAMBDA x : x \notin S)

-----------------------------------------------------------------------------
(* zod.  A parse yields issues; a fatal issue (a wrong type, a value        *)
(* outside an enum) aborts the parse, the others (a length bound, an       *)
(* unrecognized key) leave it dirty, and a refinement runs unless the      *)
(* parse was aborted.  An issue is its code, path (JSON values) and        *)
(* message, and its members: all the keys zod gives the issue, in the      *)
(* order zod inserts them (the keys of the issue the check adds, then      *)
(* path, then message unless the check gave one).  ZodError's message is   *)
(* the JSON of the issues' members.                                        *)

Issue(code, path, message, members) ==
    [code |-> code, path |-> path, message |-> message, members |-> members]
CodeMember(code) == JMember("code", JString(code))
PathMember(path) == JMember("path", JArray(path))
MessageMember(message) == JMember("message", JString(message))
\* util.joinValues(options)
JoinValues(options) == Join([n \in 1..Len(options) |-> "'" \o options[n] \o "'"], " | ")

\* a length bound of a string or an array, with the message the schema gives
TooSmall(path, minimum, type, message) ==
    Issue("too_small", path, message,
          <<CodeMember("too_small"), JMember("minimum", JNumber(minimum)),
            JMember("type", JString(type)), JMember("inclusive", JAtom("true")),
            JMember("exact", JAtom("false")), MessageMember(message), PathMember(path)>>)
TooBig(path, maximum, type, message) ==
    Issue("too_big", path, message,
          <<CodeMember("too_big"), JMember("maximum", JNumber(maximum)),
            JMember("type", JString(type)), JMember("inclusive", JAtom("true")),
            JMember("exact", JAtom("false")), MessageMember(message), PathMember(path)>>)
FieldResult(issues, aborted) == [issues |-> issues, aborted |-> aborted]
Valid == FieldResult(<<>>, FALSE)

InvalidType(path, expected, v) ==
    LET message == IF v.t = "undefined" THEN "Required"
                   ELSE "Expected " \o expected \o ", received " \o v.t
    IN FieldResult(<<Issue("invalid_type", path, message,
                           <<CodeMember("invalid_type"), JMember("expected", JString(expected)),
                             JMember("received", JString(v.t)), PathMember(path),
                             MessageMember(message)>>)>>, TRUE)

\* the invalid_type issue of an enum, which names the options as the expected type
InvalidEnumType(path, options, v) ==
    LET message == IF v.t = "undefined" THEN "Required"
                   ELSE "Expected " \o JoinValues(options) \o ", received " \o v.t
    IN FieldResult(<<Issue("invalid_type", path, message,
                           <<JMember("expected", JString(JoinValues(options))),
                             JMember("received", JString(v.t)), CodeMember("invalid_type"),
                             PathMember(path), MessageMember(message)>>)>>, TRUE)

\* received is the value itself: a string or, for a native enum, a number
InvalidEnumValue(path, options, v) ==
    LET message == "Invalid enum value. Expected " \o JoinValues(options)
                   \o ", received '" \o v.s \o "'"
    IN FieldResult(<<Issue("invalid_enum_value", path, message,
                           <<JMember("received",
                                     IF v.t = "string" THEN JString(v.s) ELSE JAtom(v.s)),
                             CodeMember("invalid_enum_value"),
                             JMember("options",
                                     JArray([n \in 1..Len(options) |-> JString(options[n])])),
                             PathMember(path), MessageMember(message)>>)>>, TRUE)

\* z.string().min(lo, loMsg).max(hi, hiMsg)
ZodString(v, path, lo, loMsg, hi, hiMsg) ==
    IF v.t # "string" THEN InvalidType(path, "string", v)
    ELSE IF Len(v.s) < lo THEN FieldResult(<<TooSmall(path, lo, "string", loMsg)>>, FALSE)
    ELSE IF Len(v.s) > hi THEN FieldResult(<<TooBig(path, hi, "string", hiMsg)>>, FALSE)
    ELSE Valid

\* z.string().optional()
ZodOptionalString(v, path) ==
    IF v.t \in {"undefined", "string"} THEN Valid ELSE InvalidType(path, "string", v)

\* z.nativeEnum(E).default(d): a value that is neither a string nor a number is of the
\* wrong type; a number is compared with the enum's values, which are strings
ZodNativeEnumDefault(v, path, options) ==
    IF v.t = "undefined" THEN Valid
    ELSE IF v.t \notin {"string", "number"} THEN InvalidEnumType(path, options, v)
    ELSE IF v.t = "string" /\ \E n \in 1..Len(options) : options[n] = v.s THEN Valid
    ELSE InvalidEnumValue(path, options, v)

\* z.enum([..]).default(d): a value that is not a string is of the wrong type
ZodEnumDefault(v, path, options) ==
    IF v.t = "undefined" THEN Valid
    ELSE IF v.t # "string" THEN InvalidEnumType(path, options, v)
    ELSE IF \E n \in 1..Len(options) : options[n] = v.s THEN Valid
    ELSE InvalidEnumValue(path, options, v)
EnumValue(v, default) == IF v.t = "undefined" THEN default ELSE v.s

RECURSIVE ElementIssues(_, _, _)
ElementIssues(a, path, n) ==
    IF n > Len(a) THEN <<>>
    ELSE (IF a[n].t = "string" THEN <<>>
          ELSE InvalidType(path \o <<JAtom(NumStr(n - 1))>>, "string", a[n]).issues)
         \o ElementIssues(a, path, n + 1)

\* faulty variant of ZodStringArray: no .max()
ZodStringArray_NoMax(v, path, lo, loMsg, hi, hiMsg) ==
    IF v.t # "array" THEN InvalidType(path, "array", v)
    ELSE LET bounds == IF Len(v.a) < lo THEN <<TooSmall(path, lo, "array", loMsg)>> ELSE <<>>
             elems == ElementIssues(v.a, path, 1)
         IN FieldResult(bounds \o elems, Len(elems) > 0)

\* z.array(z.string()).min(lo, loMsg).max(hi, hiMsg)
ZodStringArray(v, path, lo, loMsg, hi, hiMsg) ==
    IF v.t # "array" THEN InvalidType(path, "array", v)
    ELSE LET bounds == IF Len(v.a) < lo THEN <<TooSmall(path, lo, "array", loMsg)>>
                       ELSE IF Len(v.a) > hi THEN <<TooBig(path, hi, "array", hiMsg)>>
                       ELSE <<>>
             elems == ElementIssues(v.a, path, 1)
         IN FieldResult(bounds \o elems, Len(elems) > 0)

\* faulty variant of ZodStrict: the undeclared keys are dropped without an issue
ZodStrict_Strip(args, shape) == <<>>

\* .strict(): the keys the shape does not declare
ZodStrict(args, shape) ==
    LET extra == SelectSeqNotIn(Keys(args), shape) IN
    IF Len(extra) = 0 THEN <<>>
    ELSE LET message == "Unrecognized key(s) in object: "
                        \o Join([n \in 1..Len(extra) |-> "'" \o extra[n] \o "'"], ", ")
         IN <<Issue("unrecognized_keys", <<>>, message,
                    <<CodeMember("unrecognized_keys"),
                      JMember("keys", JArray([n \in 1..Len(extra) |-> JString(extra[n])])),
                      PathMember(<<>>), MessageMember(message)>>)>>

\* the issue of .refine(check, { message })
Custom(message) ==
    Issue("custom", <<>>, message,
          <<CodeMember("custom"), MessageMember(message), PathMember(<<>>)>>)

NotAnObject == InvalidType(<<>>, "object", VUndef).issues

\* ZodError.message
ZodErrorMessage(issues) ==
    JsonStringify(
        JArray([n \in 1..Len(issues) |-> JObject(issues[n].members)]), "")

ParseOk(data) == [success |-> TRUE, data |-> data, issues |-> <<>>]
ParseFail(issues) == [success |-> FALSE, issues |-> issues]

ResponseFormat == <<"markdown", "json">>
TravelModes == <<"driving", "walking", "bicycling", "transit">>

-----------------------------------------------------------------------------
(* The input schemas *)

GeocodeInputSchema(args) ==
    IF ~args.isObject THEN ParseFail(NotAnObject)
    ELSE LET address == ZodString(args.f.address, <<JString("address")>>,
                                  1, "Address cannot be empty",
                                  AddressMaxLength, "Address must not exceed 500 characters")
             format == ZodNativeEnumDefault(args.f.response_format,
                                      <<JString("response_format")>>, ResponseFormat)
             issues == address.issues \o format.issues
                       \o ZodStrict(args, {"address", "response_format"})
         IN IF Len(issues) > 0 THEN ParseFail(issues)
            ELSE ParseOk([address |-> args.f.address.s,
                          response_format |-> EnumValue(args.f.response_format, "markdown")])

\* a string field read as optional: undefined or the string
OptField(v) == IF v.t = "string" THEN Some(v.s) ELSE Undefined
\* JavaScript truthiness of an optional string
Truthy(o) == o.has /\ o.v # ""

\* faulty variant of PlaceDetailsRefinement: tests for undefined, not for truthiness
PlaceDetailsRefinement_Defined(data) == data.place_id.has \/ data.query.has

\* the predicate given to .refine()
PlaceDetailsRefinement(data) == Truthy(data.place_id) \/ Truthy(data.query)

PlaceDetailsInputSchema(args) ==
    IF ~args.isObject THEN ParseFail(NotAnObject)
    ELSE LET place_id == ZodOptionalString(args.f.place_id, <<JString("place_id")>>)
             query == ZodOptionalString(args.f.query, <<JString("query")>>)
             format == ZodNativeEnumDefault(args.f.response_format,
                                      <<JString("response_format")>>, ResponseFormat)
             aborted == place_id.aborted \/ query.aborted \/ format.aborted
             data == [place_id |-> OptField(args.f.place_id),
                      query |-> OptField(args.f.query),
                      response_format |-> EnumValue(args.f.response_format, "markdown")]
             refined == IF aborted \/ PlaceDetailsRefinement(data) THEN <<>>
                        ELSE <<Custom("Either place_id or query must be provided")>>
             issues == place_id.issues \o query.issues \o format.issues
                       \o ZodStrict(args, {"place_id", "query", "response_format"})
                       \o refined
         IN IF Len(issues) > 0 THEN ParseFail(issues) ELSE ParseOk(data)

\* the strings of a validated array
Strings(a) == [n \in 1..Len(a) |-> a[n].s]

DistanceMatrixInputSchema(args) ==
    IF ~args.isObject THEN ParseFail(NotAnObject)
    ELSE LET origins == ZodStringArray(args.f.origins, <<JString("origins")>>,
                            1, "At least one origin is required", MaxOrigins,
                            "Maximum 10 origins allowed to prevent overwhelming responses")
             destinations == ZodStringArray(args.f.destinations, <<JString("destinations")>>,
                            1, "At least one destination is required", MaxDestinations,
                            "Maximum 10 destinations allowed to prevent overwhelming responses")
             mode == ZodEnumDefault(args.f.mode, <<JString("mode")>>, TravelModes)
             format == ZodNativeEnumDefault(args.f.response_format,
                                      <<JString("response_format")>>, ResponseFormat)
             issues == origins.issues \o destinations.issues \o mode.issues \o format.issues
                       \o ZodStrict(args, {"origins", "destinations", "mode", "response_format"})
         IN IF Len(issues) > 0 THEN ParseFail(issues)
            ELSE ParseOk([origins |-> Strings(args.f.origins.a),
                          destinations |-> Strings(args.f.destinations.a),
                          mode |-> EnumValue(args.f.mode, "driving"),
                          response_format |-> EnumValue(args.f.response_format, "markdown")])

-----------------------------------------------------------------------------
(* HTTP.  A request of the client, and what the upstream does with it: a   *)
(* response (a status and a body), a timeout after the 10 s the request    *)
(* allows, or a connection failure.  axios resolves on a 2xx status and    *)
(* rejects with an AxiosError otherwise: one carrying response.status for  *)
(* a response, code ECONNABORTED for a timeout, and neither for a          *)
(* connection failure.                                                     *)

HttpRequest(op, method, url, params, headers, data) ==
    [op |-> op, method |-> method, url |-> url, params |-> params,
     headers |-> headers, data |-> data, timeout |-> 10000]
NoRequest == [op |-> "none"]

Pair(name, value) == [name |-> name, value |-> value]

Response(status, data) == [kind |-> "response", status |-> status, data |-> data]
Timeout == [kind |-> "timeout", status |-> 0, data |-> [isNull |-> TRUE]]
ConnectionFailure == [kind |-> "network", status |-> 0, data |-> [isNull |-> TRUE]]
NoReply == [kind |-> "none", status |-> 0, data |-> [isNull |-> TRUE]]
NullBody == [isNull |-> TRUE]

\* axios' default validateStatus
Resolves(r) == r.kind = "response" /\ r.status >= 200 /\ r.status < 300
\* axiosError.response?.status
ErrorStatus(r) == IF r.kind = "response" THEN Some(r.status) ELSE Undefined
\* axiosError.code
ErrorCode(r) ==
    CASE r.kind = "timeout" -> "ECONNABORTED"
      [] r.kind = "network" -> "ERR_NETWORK"
      [] r.kind = "response" /\ r.status >= 500 -> "ERR_BAD_RESPONSE"
      [] OTHER -> "ERR_BAD_REQUEST"

-----------------------------------------------------------------------------
(* The client's outcomes: a value, or { error } *)

Ok(value) == [isError |-> FALSE, error |-> "", value |-> value]
Err(message) == [isError |-> TRUE, error |-> message, value |-> <<>>]
NoOutcome == [isError |-> FALSE, error |-> "", value |-> "none"]

\* faulty variant of ApiError: the status is not put in the message
ApiError_Unnamed(status) ==
    Err("API error (unknown). Please try again or contact support if the issue persists.")

\* `API error (${status || 'unknown'}). ...`
ApiError(status) ==
    Err("API error (" \o (IF status.has /\ status.v # 0 THEN NumStr(status.v) ELSE "unknown")
        \o "). Please try again or contact support if the issue persists.")

RateLimited == Err("Rate limit exceeded. Please wait a moment before making more requests.")

\* a TypeError of the engine, caught by the method's catch: { error: error.message }
ReadOfNull(prop) == "Cannot read properties of null (reading '" \o prop \o "')"
ReadOfUndefined(prop) == "Cannot read properties of undefined (reading '" \o prop \o "')"

-----------------------------------------------------------------------------
(* GooglePlacesAPI.geocodeAddress *)

geocodeRequest(api, address) ==
    HttpRequest("geocodeAddress", "GET", api.baseUrl \o "/geocode/json",
                <<Pair("address", address), Pair("key", api.apiKey)>>, <<>>, <<>>)

\* faulty variant of Slice0: slice(-end), the last results instead of the first
Slice0_FromEnd(seq, end) ==
    SubSeq(seq, IF Len(seq) < end THEN 1 ELSE Len(seq) - end + 1, Len(seq))

\* Array.prototype.slice(0, end)
Slice0(seq, end) == SubSeq(seq, 1, IF Len(seq) < end THEN Len(seq) ELSE end)

GeocodeResult(item) ==
    [place_id |-> item.place_id,
     address |-> item.formatted_address,
     latitude |-> item.geometry.v.lat,
     longitude |-> item.geometry.v.lng]

\* faulty variant of geocodeCatch: no case 403
geocodeCatch_No403(r) ==
    LET status == ErrorStatus(r) IN
    CASE status = Some(429) -> RateLimited
      [] status = Some(400) -> Err("Invalid address format. Please provide a valid address.")
      [] OTHER ->
            IF ErrorCode(r) = "ECONNABORTED" THEN Err("Request timed out. Please try again.")
            ELSE ApiError(status)

geocodeCatch(r) ==
    LET status == ErrorStatus(r) IN
    CASE status = Some(403) ->
            Err("Access denied. Please check your Google Maps API key has Geocoding API enabled in Google Cloud Console.")
      [] status = Some(429) -> RateLimited
      [] status = Some(400) -> Err("Invalid address format. Please provide a valid address.")
      [] OTHER ->
            IF ErrorCode(r) = "ECONNABORTED" THEN Err("Request timed out. Please try again.")
            ELSE ApiError(status)

\* faulty variant of geocodeBody: ZERO_RESULTS is not told from the other statuses
geocodeBody_ZeroResultsFails(data) ==
    IF data.isNull THEN Err(ReadOfNull("status"))
    ELSE IF data.status = Some("OK") /\ data.results.has
    THEN LET first == Slice0(data.results.v, GeocodeSliceEnd) IN
         IF \E n \in 1..Len(first) : ~first[n].geometry.has
         THEN Err(ReadOfUndefined("location"))
         ELSE Ok([n \in 1..Len(first) |-> GeocodeResult(first[n])])
    ELSE Err("Geocoding failed with status: " \o OptStr(data.status))

\* faulty variant of geocodeBody: status OK without results is taken as no results
geocodeBody_ResultsOptional(data) ==
    IF data.isNull THEN Err(ReadOfNull("status"))
    ELSE IF data.status = Some("OK")
    THEN LET first == Slice0(IF data.results.has THEN data.results.v ELSE <<>>,
                             GeocodeSliceEnd) IN
         IF \E n \in 1..Len(first) : ~first[n].geometry.has
         THEN Err(ReadOfUndefined("location"))
         ELSE Ok([n \in 1..Len(first) |-> GeocodeResult(first[n])])
    ELSE IF data.status = Some("ZERO_RESULTS") THEN Ok(<<>>)
    ELSE Err("Geocoding failed with status: " \o OptStr(data.status))

\* the body of a 200 response
geocodeBody(data) ==
    IF data.isNull THEN Err(ReadOfNull("status"))
    ELSE IF data.status = Some("OK") /\ data.results.has
    THEN LET first == Slice0(data.results.v, GeocodeSliceEnd) IN
         IF \E n \in 1..Len(first) : ~first[n].geometry.has
         THEN Err(ReadOfUndefined("location"))
         ELSE Ok([n \in 1..Len(first) |-> GeocodeResult(first[n])])
    ELSE IF data.status = Some("ZERO_RESULTS") THEN Ok(<<>>)
    ELSE Err("Geocoding failed with status: " \o OptStr(data.status))

geocodeAddress(r) ==
    IF ~Resolves(r) THEN geocodeCatch(r)
    ELSE IF r.status # 200
    THEN Err("Geocoding request failed with status " \o NumStr(r.status) \o ". Please try again.")
    ELSE geocodeBody(r.data)

-----------------------------------------------------------------------------
(* GooglePlacesAPI.getPlaceDetailsById and searchAndGetPlaceDetails *)

getPlaceDetailsByIdRequest(api, placeId) ==
    HttpRequest("getPlaceDetailsById", "GET", api.placesBaseUrl \o "/places/" \o placeId,
                <<>>,
                <<Pair("X-Goog-Api-Key", api.apiKey),
                  Pair("X-Goog-FieldMask",
                       "id,displayName,formattedAddress,location,types,googleMapsLinks")>>,
                <<>>)

searchAndGetPlaceDetailsRequest(api, query) ==
    HttpRequest("searchAndGetPlaceDetails", "POST", api.placesBaseUrl \o "/places:searchText",
                <<>>,
                <<Pair("X-Goog-Api-Key", api.apiKey),
                  Pair("X-Goog-FieldMask",
                       "places.id,places.displayName,places.formattedAddress,places.location,places.types,places.googleMapsLinks")>>,
                <<Pair("textQuery", query), Pair("maxResultCount", "1")>>)

NoLinks == [mapsUri |-> Undefined, directionsUri |-> Undefined]

\* the place_details object both methods build from a place of the body
PlaceDetails(place) ==
    [id |-> place.id,
     displayName |-> IF Truthy(place.displayName) THEN place.displayName ELSE Undefined,
     formattedAddress |-> place.formattedAddress,
     location |-> place.location,
     types |-> IF place.types.has THEN place.types.v ELSE <<>>,
     googleMapsLinks |-> IF place.googleMapsLinks.has THEN place.googleMapsLinks.v ELSE NoLinks]

getPlaceDetailsByIdCatch(r) ==
    LET status == ErrorStatus(r) IN
    CASE status = Some(404) ->
            Err("Place not found. Please verify the place_id is correct or try using a search query instead.")
      [] status = Some(403) ->
            Err("Access denied. Please check your Google Maps API key has Places API (New) enabled in Google Cloud Console.")
      [] status = Some(429) -> RateLimited
      [] status = Some(400) -> Err("Invalid request. Please check that the place_id format is correct.")
      [] OTHER ->
            IF ErrorCode(r) = "ECONNABORTED" THEN Err("Request timed out. Please try again.")
            ELSE ApiError(status)

getPlaceDetailsById(r) ==
    IF ~Resolves(r) THEN getPlaceDetailsByIdCatch(r)
    ELSE IF r.status # 200
    THEN Err("Place details request failed with status " \o NumStr(r.status) \o ". Please try again.")
    ELSE IF r.data.isNull THEN Err(ReadOfNull("id"))
    ELSE Ok(PlaceDetails(r.data.place))

\* faulty variant of searchAndGetPlaceDetailsCatch: the catch of the lookup by ID
searchAndGetPlaceDetailsCatch_AsById(r) == getPlaceDetailsByIdCatch(r)

searchAndGetPlaceDetailsCatch(r) ==
    LET status == ErrorStatus(r) IN
    CASE status = Some(404) ->
            Err("Search endpoint not found. Please verify your API configuration.")
      [] status = Some(403) ->
            Err("Access denied. Please check your Google Maps API key has Places API (New) enabled in Google Cloud Console.")
      [] status = Some(429) -> RateLimited
      [] status = Some(400) -> Err("Invalid search query. Please provide a valid search term.")
      [] OTHER ->
            IF ErrorCode(r) = "ECONNABORTED"
            THEN Err("Request timed out. Please try again with a simpler query.")
            ELSE ApiError(status)

\* faulty variant of searchAndGetPlaceDetails: an empty list is reported as the lookup by
\* ID reports a place it does not find
searchAndGetPlaceDetails_EmptyAsNotFound(r) ==
    IF ~Resolves(r) THEN searchAndGetPlaceDetailsCatch(r)
    ELSE IF r.status # 200
    THEN Err("Place search request failed with status " \o NumStr(r.status) \o ". Please try again.")
    ELSE IF r.data.isNull THEN Err(ReadOfNull("places"))
    ELSE LET places == IF r.data.places.has THEN r.data.places.v ELSE <<>> IN
         IF Len(places) > 0 THEN Ok(PlaceDetails(places[1]))
         ELSE getPlaceDetailsByIdCatch(Response(404, NullBody))

searchAndGetPlaceDetails(r) ==
    IF ~Resolves(r) THEN searchAndGetPlaceDetailsCatch(r)
    ELSE IF r.status # 200
    THEN Err("Place search request failed with status " \o NumStr(r.status) \o ". Please try again.")
    ELSE IF r.data.isNull THEN Err(ReadOfNull("places"))
    ELSE LET places == IF r.data.places.has THEN r.data.places.v ELSE <<>> IN
         IF Len(places) > 0 THEN Ok(PlaceDetails(places[1]))
         ELSE Err("No places found for the given query")

-----------------------------------------------------------------------------
(* GooglePlacesAPI.calculateDistanceMatrix *)

calculateDistanceMatrixRequest(api, origins, destinations, mode) ==
    HttpRequest("calculateDistanceMatrix", "GET", api.baseUrl \o "/distancematrix/json",
                <<Pair("origins", Join(origins, "|")),
                  Pair("destinations", Join(destinations, "|")),
                  Pair("mode", mode), Pair("key", api.apiKey)>>, <<>>, <<>>)

\* faulty variant of OrEmpty: the upstream's array is dropped
OrEmpty_Always(o) == <<>>

OrEmpty(o) == IF o.has THEN o.v ELSE <<>>

\* faulty variant of calculateDistanceMatrixCatch: error.code is not looked at
calculateDistanceMatrixCatch_NoTimeout(r) ==
    LET status == ErrorStatus(r) IN
    CASE status = Some(403) ->
            Err("Access denied. Please check your Google Maps API key has Distance Matrix API enabled in Google Cloud Console.")
      [] status = Some(429) -> RateLimited
      [] status = Some(400) ->
            Err("Invalid request. Please check that origins and destinations are valid addresses or coordinates.")
      [] OTHER -> ApiError(status)

calculateDistanceMatrixCatch(r) ==
    LET status == ErrorStatus(r) IN
    CASE status = Some(403) ->
            Err("Access denied. Please check your Google Maps API key has Distance Matrix API enabled in Google Cloud Console.")
      [] status = Some(429) -> RateLimited
      [] status = Some(400) ->
            Err("Invalid request. Please check that origins and destinations are valid addresses or coordinates.")
      [] OTHER ->
            IF ErrorCode(r) = "ECONNABORTED"
            THEN Err("Request timed out. Please try again with fewer locations.")
            ELSE ApiError(status)

calculateDistanceMatrix(r) ==
    IF ~Resolves(r) THEN calculateDistanceMatrixCatch(r)
    ELSE IF r.status # 200
    THEN Err("Distance Matrix request failed with status " \o NumStr(r.status) \o ". Please try again.")
    ELSE LET data == r.data IN
         IF data.isNull THEN Err(ReadOfNull("status"))
         ELSE IF data.status = Some("OK")
         THEN Ok([origin_addresses |-> OrEmpty(data.origin_addresses),
                  destination_addresses |-> OrEmpty(data.destination_addresses),
                  rows |-> OrEmpty(data.rows)])
         ELSE Err("Distance Matrix API failed with status: " \o OptStr(data.status))

-----------------------------------------------------------------------------
(* createMcpServer: the handler's helpers and return values *)

TruncationMessage(content, context) ==
    "\n\n[Response truncated: exceeded " \o NumStr(CHARACTER_LIMIT)
    \o " character limit. Original length: " \o NumStr(Len(content))
    \o " characters. " \o context \o "]"

\* faulty variant of truncateIfNeeded: < for <=
truncateIfNeeded_Strict(content, context) ==
    IF Len(content) < CHARACTER_LIMIT
    THEN [text |-> content, wasTruncated |-> FALSE]
    ELSE [text |-> Substring0(content, CHARACTER_LIMIT) \o TruncationMessage(content, context),
          wasTruncated |-> TRUE]

truncateIfNeeded(content, context) ==
    IF Len(content) <= CHARACTER_LIMIT
    THEN [text |-> content, wasTruncated |-> FALSE]
    ELSE [text |-> Substring0(content, CHARACTER_LIMIT) \o TruncationMessage(content, context),
          wasTruncated |-> TRUE]

JsonHint == "Try using response_format=\"json\" for more compact output."
FewerHint == "Try reducing the number of origins/destinations or use response_format=\"json\"."

TextContent(text) == <<[type |-> "text", text |-> text]>>
\* faulty variant of ErrorResult: the flag is left out
ErrorResult_Unflagged(text) ==
    [content |-> TextContent(text), isError |-> Undefined, metadata |-> Undefined]

\* { content, isError: true }
ErrorResult(text) ==
    [content |-> TextContent(text), isError |-> Some(TRUE), metadata |-> Undefined]
\* { content }
PlainResult(text) ==
    [content |-> TextContent(text), isError |-> Undefined, metadata |-> Undefined]
\* { content, metadata }
Result(text, metadata) ==
    [content |-> TextContent(text), isError |-> Undefined, metadata |-> Some(metadata)]
NoResult == [content |-> <<>>, isError |-> Undefined, metadata |-> Undefined]

\* how a stretch of the handler ends: it returns, throws, or awaits the client
Return(result, responseText) == [k |-> "return", result |-> result, body |-> responseText]
Throw(message) == [k |-> "throw", message |-> message]
Await(data, request) == [k |-> "await", data |-> data, request |-> request]

-----------------------------------------------------------------------------
(* case 'google_maps_geocode_address' *)

GeocodeJson(results) ==
    JsonStringify(
        JArray([n \in 1..Len(results) |->
            JObject(<<JMember("place_id", JString(results[n].place_id)),
                      JMember("address", JString(results[n].address)),
                      JMember("latitude", JNumber(results[n].latitude)),
                      JMember("longitude", JNumber(results[n].longitude))>>)]), "")

RECURSIVE Flatten(_)
\* the lines pushed by a forEach, one sequence of lines per item
Flatten(seqs) ==
    IF Len(seqs) = 0 THEN <<>>
    ELSE IF Len(seqs) = 1 THEN seqs[1]
    ELSE LET half == Len(seqs) \div 2 IN
         Flatten(SubSeq(seqs, 1, half)) \o Flatten(SubSeq(seqs, half + 1, Len(seqs)))

GeocodeMarkdown(address, results) ==
    Join(<<"# Geocoding Results", "", "Query: " \o address,
           "Results: " \o NumStr(Len(results)), "">>
         \o Flatten([n \in 1..Len(results) |->
              <<"## Result " \o NumStr(n),
                "- **Address**: " \o results[n].address,
                "- **Coordinates**: " \o NumStr(results[n].latitude) \o ", "
                    \o NumStr(results[n].longitude),
                "- **Place ID**: " \o results[n].place_id,
                "">>]),
         "\n")

GeocodeTool(input, result) ==
    IF result.isError
    THEN Return(ErrorResult("Geocoding Error\n" \o Rule50 \o "\n" \o result.error), Undefined)
    ELSE LET results == result.value IN
         IF Len(results) = 0
         THEN Return(PlainResult("No Results Found\n" \o Rule50
                        \o "\nNo geocoding results found for: " \o input.address),
                     Undefined)
         ELSE LET responseText == IF input.response_format = "json"
                                  THEN GeocodeJson(results)
                                  ELSE GeocodeMarkdown(input.address, results)
                  t == truncateIfNeeded(responseText, JsonHint)
              IN Return(Result(t.text, [total_results |-> Len(results),
                                        query |-> input.address,
                                        truncated |-> t.wasTruncated]),
                        Some(responseText))

-----------------------------------------------------------------------------
(* case 'google_maps_get_place_details' *)

JStrings(ss) == JArray([n \in 1..Len(ss) |-> JString(ss[n])])

PlaceJson(place) ==
    JsonStringify(
        JObject(<<JMember("id", JString(place.id)),
                  JMember("displayName",
                          IF place.displayName.has THEN JString(place.displayName.v) ELSE JNull),
                  JMember("formattedAddress", JString(place.formattedAddress))>>
                \o JOptMember("location", place.location.has,
                       JObject(<<JMember("latitude",
                                    JNumber(IF place.location.has THEN place.location.v.latitude ELSE 0)),
                                 JMember("longitude",
                                    JNumber(IF place.location.has THEN place.location.v.longitude ELSE 0))>>))
                \o <<JMember("types", JStrings(place.types)),
                     JMember("googleMapsLinks",
                         JObject(JOptMember("mapsUri", place.googleMapsLinks.mapsUri.has,
                                     JString(OptStr(place.googleMapsLinks.mapsUri)))
                                 \o JOptMember("directionsUri",
                                     place.googleMapsLinks.directionsUri.has,
                                     JString(OptStr(place.googleMapsLinks.directionsUri)))))>>),
        "")

\* the lines of the markdown rendering; called only with a location
PlaceMarkdown(place) ==
    Join(<<"# Place Details", "",
           "**Name**: " \o (IF Truthy(place.displayName) THEN place.displayName.v ELSE "N/A"),
           "**Address**: " \o place.formattedAddress,
           "**Location**: " \o NumStr(place.location.v.latitude) \o ", "
                \o NumStr(place.location.v.longitude),
           "**Place ID**: " \o place.id>>
         \o (IF Len(place.types) > 0
             THEN <<"**Types**: " \o Join(place.types, ", ")>> ELSE <<>>)
         \o (IF Truthy(place.googleMapsLinks.mapsUri)
             THEN <<"**Google Maps**: " \o place.googleMapsLinks.mapsUri.v>> ELSE <<>>)
         \o (IF Truthy(place.googleMapsLinks.directionsUri)
             THEN <<"**Directions**: " \o place.googleMapsLinks.directionsUri.v>> ELSE <<>>),
         "\n")

\* validated.query || validated.place_id
EchoedQuery(input) ==
    IF Truthy(input.query) THEN input.query ELSE input.place_id

PlaceDetailsTool(input, result) ==
    IF result.isError
    THEN Return(ErrorResult("Place Details Error\n" \o Rule50 \o "\n" \o result.error),
                Undefined)
    ELSE LET place == result.value IN
         IF input.response_format # "json" /\ ~place.location.has
         THEN Throw(ReadOfUndefined("latitude"))
         ELSE LET responseText == IF input.response_format = "json"
                                  THEN PlaceJson(place) ELSE PlaceMarkdown(place)
                  t == truncateIfNeeded(responseText, JsonHint)
              IN Return(Result(t.text, [place_id |-> place.id,
                                        location |-> place.location,
                                        query |-> EchoedQuery(input),
                                        truncated |-> t.wasTruncated]),
                        Some(responseText))

-----------------------------------------------------------------------------
(* case 'google_maps_calculate_distance_matrix'.  The two characters of  *)
(* the markdown outside ASCII, the arrow of a destination heading and the  *)
(* multiplication sign of the total, one UTF-16 unit each, are written     *)
(* ">" and "x".                                                            *)

\* seq[n] of a JavaScript array (n from 0) in a template literal
AtStr(seq, n) == IF n + 1 <= Len(seq) THEN seq[n + 1] ELSE "undefined"

\* faulty variant of TextValueJson: the number is left out
TextValueJson_TextOnly(tv) ==
    JObject(<<JMember("text", JString(tv.text))>>)

TextValueJson(tv) ==
    JObject(<<JMember("text", JString(tv.text)), JMember("value", JNumber(tv.value))>>)

\* an element of the body, its keys in the order the upstream sends them
ElementJson(e) ==
    JObject(JOptMember("distance", e.distance.has,
                       TextValueJson(IF e.distance.has THEN e.distance.v ELSE [text |-> "", value |-> 0]))
            \o JOptMember("duration", e.duration.has,
                       TextValueJson(IF e.duration.has THEN e.duration.v ELSE [text |-> "", value |-> 0]))
            \o <<JMember("status", JString(e.status))>>)

\* faulty variant of RowJson: a row is written without its elements
RowJson_NoElements(row) == JObject(<<>>)

RowJson(row) ==
    JObject(JOptMember("elements", row.elements.has,
                JArray([n \in 1..Len(OrEmpty(row.elements)) |->
                            ElementJson(row.elements.v[n])])))

DistanceMatrixJson(distanceMatrix, mode, totalElements) ==
    JsonStringify(
        JObject(<<JMember("origin_addresses", JStrings(distanceMatrix.origin_addresses)),
                  JMember("destination_addresses",
                          JStrings(distanceMatrix.destination_addresses)),
                  JMember("rows", JArray([n \in 1..Len(distanceMatrix.rows) |->
                                            RowJson(distanceMatrix.rows[n])])),
                  JMember("metadata",
                      JObject(<<JMember("total_elements", JNumber(totalElements)),
                                JMember("origins_count",
                                        JNumber(Len(distanceMatrix.origin_addresses))),
                                JMember("destinations_count",
                                        JNumber(Len(distanceMatrix.destination_addresses))),
                                JMember("mode", JString(mode)),
                                JMember("billing_note",
                                        JString("10,000 elements/month free tier"))>>))>>),
        "")

\* faulty variant of ElementLines: the status line is written for every element
ElementLines_StatusFirst(distanceMatrix, element, destIndex) ==
    <<"### > " \o AtStr(distanceMatrix.destination_addresses, destIndex),
      "- **Status**: " \o element.status, "">>

ElementLines(distanceMatrix, element, destIndex) ==
    <<"### > " \o AtStr(distanceMatrix.destination_addresses, destIndex)>>
    \o (IF element.status = "OK"
        THEN (IF element.distance.has
              THEN <<"- **Distance**: " \o element.distance.v.text \o " ("
                     \o NumStr(element.distance.v.value) \o " meters)">>
              ELSE <<>>)
             \o (IF element.duration.has
                 THEN <<"- **Duration**: " \o element.duration.v.text \o " ("
                        \o NumStr(element.duration.v.value) \o " seconds)">>
                 ELSE <<>>)
        ELSE <<"- **Status**: " \o element.status>>)
    \o <<"">>

\* called only when every row has its elements
RowLines(distanceMatrix, row, originIndex) ==
    <<"## Origin: " \o AtStr(distanceMatrix.origin_addresses, originIndex), "">>
    \o Flatten([n \in 1..Len(row.elements.v) |->
                    ElementLines(distanceMatrix, row.elements.v[n], n - 1)])

DistanceMatrixMarkdown(distanceMatrix, mode, totalElements) ==
    Join(<<"# Distance Matrix Results", "",
           "**Travel Mode**: " \o mode,
           "**Total Elements**: " \o NumStr(totalElements) \o " (origins x destinations)",
           "">>
         \o Flatten([n \in 1..Len(distanceMatrix.rows) |->
                        RowLines(distanceMatrix, distanceMatrix.rows[n], n - 1)])
         \o <<"---", "**Billing Note**: 10,000 elements/month free tier (Essentials plan)">>,
         "\n")

DistanceMatrixTool(input, result) ==
    IF result.isError
    THEN Return(ErrorResult("Distance Matrix Error\n" \o Rule50 \o "\n" \o result.error),
                Undefined)
    ELSE LET distanceMatrix == result.value
             totalElements == Len(distanceMatrix.origin_addresses)
                              * Len(distanceMatrix.destination_addresses)
         IN IF input.response_format # "json"
               /\ \E n \in 1..Len(distanceMatrix.rows) : ~distanceMatrix.rows[n].elements.has
            THEN Throw(ReadOfUndefined("forEach"))
            ELSE LET responseText ==
                        IF input.response_format = "json"
                        THEN DistanceMatrixJson(distanceMatrix, input.mode, totalElements)
                        ELSE DistanceMatrixMarkdown(distanceMatrix, input.mode, totalElements)
                     t == truncateIfNeeded(responseText, FewerHint)
                 IN Return(Result(t.text,
                              [total_elements |-> totalElements,
                               origins_count |-> Len(distanceMatrix.origin_addresses),
                               destinations_count |-> Len(distanceMatrix.destination_addresses),
                               mode |-> input.mode,
                               billing_info |-> "10,000 elements/month free tier",
                               truncated |-> t.wasTruncated]),
                           Some(responseText))

-----------------------------------------------------------------------------
(* The CallToolRequestSchema handler *)

\* faulty variant of GeocodeStart: the parse's failure is not looked at
GeocodeStart_Unchecked(api, args) ==
    Await([address |-> args.f.address.s,
           response_format |-> EnumValue(args.f.response_format, "markdown")],
          geocodeRequest(api, args.f.address.s))

\* each case of the switch, up to its await: the parse and the routing
GeocodeStart(api, args) ==
    LET parsed == GeocodeInputSchema(args) IN
    IF ~parsed.success THEN Throw(ZodErrorMessage(parsed.issues))
    ELSE Await(parsed.data, geocodeRequest(api, parsed.data.address))

\* faulty variant of PlaceDetailsStart: no branch for a query
PlaceDetailsStart_IdOnly(api, args) ==
    LET parsed == PlaceDetailsInputSchema(args) IN
    IF ~parsed.success THEN Throw(ZodErrorMessage(parsed.issues))
    ELSE IF Truthy(parsed.data.place_id)
    THEN Await(parsed.data, getPlaceDetailsByIdRequest(api, parsed.data.place_id.v))
    ELSE Throw("Either place_id or query must be provided")

\* faulty variant of PlaceDetailsStart: the query is looked at before the place_id
PlaceDetailsStart_QueryFirst(api, args) ==
    LET parsed == PlaceDetailsInputSchema(args) IN
    IF ~parsed.success THEN Throw(ZodErrorMessage(parsed.issues))
    ELSE IF Truthy(parsed.data.query)
    THEN Await(parsed.data, searchAndGetPlaceDetailsRequest(api, parsed.data.query.v))
    ELSE IF Truthy(parsed.data.place_id)
    THEN Await(parsed.data, getPlaceDetailsByIdRequest(api, parsed.data.place_id.v))
    ELSE Throw("Either place_id or query must be provided")

PlaceDetailsStart(api, args) ==
    LET parsed == PlaceDetailsInputSchema(args) IN
    IF ~parsed.success THEN Throw(ZodErrorMessage(parsed.issues))
    ELSE IF Truthy(parsed.data.place_id)
    THEN Await(parsed.data, getPlaceDetailsByIdRequest(api, parsed.data.place_id.v))
    ELSE IF Truthy(parsed.data.query)
    THEN Await(parsed.data, searchAndGetPlaceDetailsRequest(api, parsed.data.query.v))
    ELSE Throw("Either place_id or query must be provided")

DistanceMatrixStart(api, args) ==
    LET parsed == DistanceMatrixInputSchema(args) IN
    IF ~parsed.success THEN Throw(ZodErrorMessage(parsed.issues))
    ELSE Await(parsed.data,
               calculateDistanceMatrixRequest(api, parsed.data.origins,
                                              parsed.data.destinations, parsed.data.mode))

\* faulty variant of HandlerStart: a default that falls into the first case
HandlerStart_DefaultsToGeocode(api, name, args) ==
    CASE name = "google_maps_get_place_details" -> PlaceDetailsStart(api, args)
      [] name = "google_maps_calculate_distance_matrix" -> DistanceMatrixStart(api, args)
      [] OTHER -> GeocodeStart(api, args)

\* the switch on the name
HandlerStart(api, name, args) ==
    CASE name = "google_maps_geocode_address" -> GeocodeStart(api, args)
      [] name = "google_maps_get_place_details" -> PlaceDetailsStart(api, args)
      [] name = "google_maps_calculate_distance_matrix" -> DistanceMatrixStart(api, args)
      [] OTHER -> Throw("Unknown tool: " \o name)

\* the client method a request belongs to, from the upstream's reply on
ClientMethod(op, r) ==
    CASE op = "geocodeAddress" -> geocodeAddress(r)
      [] op = "getPlaceDetailsById" -> getPlaceDetailsById(r)
      [] op = "searchAndGetPlaceDetails" -> searchAndGetPlaceDetails(r)
      [] op = "calculateDistanceMatrix" -> calculateDistanceMatrix(r)

\* the handler from its await on
HandlerResume(name, input, result) ==
    CASE name = "google_maps_geocode_address" -> GeocodeTool(input, result)
      [] name = "google_maps_get_place_details" -> PlaceDetailsTool(input, result)
      [] name = "google_maps_calculate_distance_matrix" -> DistanceMatrixTool(input, result)

\* faulty variant of HandlerCatch: no catch, a throw leaves the handler
HandlerCatch_None(h) ==
    IF h.k = "throw"
    THEN [result |-> NoResult, body |-> Undefined, escaped |-> TRUE]
    ELSE [result |-> h.result, body |-> h.body, escaped |-> FALSE]

\* the handler's try/catch: what the transport gets
HandlerCatch(h) ==
    IF h.k = "throw"
    THEN [result |-> ErrorResult("Error: " \o h.message), body |-> Undefined, escaped |-> FALSE]
    ELSE [result |-> h.result, body |-> h.body, escaped |-> FALSE]

-----------------------------------------------------------------------------
(* The inputs: tool names and argument bags *)

KnownTools == {"google_maps_geocode_address", "google_maps_get_place_details",
               "google_maps_calculate_distance_matrix"}
ToolNames == KnownTools \cup {"geocode_address", "google_maps_reverse_geocode"}

Formats == {VUndef, VStr("json"), VStr("markdown"), VStr("xml"), VNum(7), VArr(<<>>)}
Undeclared == {VUndef, VStr("yes")}

LongestAddress == Repeat("a", AddressMaxLength)

GeocodeBags ==
    {Args([EmptyFields EXCEPT !.address = a, !.response_format = f, !.verbose = x]) :
        a \in {VUndef, VStr(""), VStr("Paris"), VStr(LongestAddress),
               VStr(LongestAddress \o "a"), VNum(7)},
        f \in Formats, x \in Undeclared}

PlaceBags ==
    {Args([EmptyFields EXCEPT !.place_id = p, !.query = q, !.response_format = f,
                              !.verbose = x]) :
        p \in {VUndef, VStr(""), VStr("ChIJ1"), VNum(7)},
        q \in {VUndef, VStr(""), VStr("cafe")},
        f \in Formats, x \in Undeclared}

Names(prefix, n) == [k \in 1..n |-> prefix \o NumStr(k)]

OriginLists == {VUndef, VStrings(<<>>), VStrings(<<"A">>), VStrings(<<"A", "B">>),
                VStrings(Names("O", MaxOrigins)), VStrings(Names("O", MaxOrigins + 1))}
DestinationLists == {VUndef, VStrings(<<>>), VStrings(<<"X">>), VArr(<<VStr("X"), VNum(3)>>),
                     VStrings(Names("D", MaxDestinations)),
                     VStrings(Names("D", MaxDestinations + 1))}

DistanceBags ==
    {Args([EmptyFields EXCEPT !.origins = o, !.destinations = d, !.mode = m,
                              !.response_format = f, !.verbose = x]) :
        o \in OriginLists, d \in DestinationLists,
        m \in {VUndef, VStr("walking"), VStr("flying"), VNum(7), VArr(<<>>)},
        f \in {VUndef, VStr("json"), VStr("xml"), VArr(<<>>)}, x \in Undeclared}

ArgBags == {NoArgs} \cup GeocodeBags \cup PlaceBags \cup DistanceBags

-----------------------------------------------------------------------------
(* The inputs: what the upstream does *)

HttpErrors == {400, 403, 404, 429, 500}

\* without a usable body: a failure, or a 2xx that is not 200
Failures == {Timeout, ConnectionFailure}
            \cup {Response(status, NullBody) : status \in HttpErrors \cup {204}}

RECURSIVE SeqsOfLen(_, _)
SeqsOfLen(S, n) ==
    IF n = 0 THEN {<<>>}
    ELSE {<<x>> \o rest : x \in S, rest \in SeqsOfLen(S, n - 1)}
SeqsUpTo(S, n) == UNION {SeqsOfLen(S, k) : k \in 0..n}

GeocodeItem(place_id, formatted_address, geometry) ==
    [place_id |-> place_id, formatted_address |-> formatted_address, geometry |-> geometry]

GeocodeItems ==
    {GeocodeItem("ChIJ1", "Paris, France", Some([lat |-> 48, lng |-> 2])),
     GeocodeItem("ChIJ2", "Paris, TX, USA", Some([lat |-> 33, lng |-> -95])),
     GeocodeItem("ChIJ3", "Paris, Ontario", Undefined)}

\* a formatted address that puts the markdown of one result for "Paris" at the cap + d
GeocodeOverhead ==
    Len(GeocodeMarkdown("Paris", <<[place_id |-> "ChIJ9", address |-> "",
                                    latitude |-> 48, longitude |-> 2]>>))
LongItem(d) ==
    GeocodeItem("ChIJ9", Repeat("x", CHARACTER_LIMIT - GeocodeOverhead + d),
                Some([lat |-> 48, lng |-> 2]))

GeocodeResultLists ==
    SeqsUpTo(GeocodeItems, MaxResults) \cup {<<LongItem(d)>> : d \in {-1, 0, 1}}

GeocodeBody(status, results) == [isNull |-> FALSE, status |-> status, results |-> results]

GeocodeBodies ==
    {NullBody}
    \cup {GeocodeBody(Some("OK"), Some(l)) : l \in GeocodeResultLists}
    \cup {GeocodeBody(status, results) :
            status \in {Some("ZERO_RESULTS"), Some("REQUEST_DENIED"), Undefined},
            results \in {Undefined, Some(<<>>)}}
    \cup {GeocodeBody(Some("OK"), Undefined)}

Place(displayName, location, types, googleMapsLinks) ==
    [id |-> "ChIJ1", displayName |-> displayName, formattedAddress |-> "1 Rue A, Paris",
     location |-> location, types |-> types, googleMapsLinks |-> googleMapsLinks]

Places ==
    {Place(Some("Cafe A"), Some([latitude |-> 48, longitude |-> 2]),
           Some(<<"cafe", "food">>),
           Some([mapsUri |-> Some("https://maps.google.com/?cid=1"),
                 directionsUri |-> Some("https://maps.google.com/?daddr=1")])),
     Place(Undefined, Some([latitude |-> 48, longitude |-> 2]), Undefined, Undefined),
     Place(Some(""), Some([latitude |-> 48, longitude |-> 2]), Some(<<>>),
           Some([mapsUri |-> Some("https://maps.google.com/?cid=1"),
                 directionsUri |-> Undefined])),
     Place(Some("Cafe A"), Undefined, Undefined, Undefined)}

PlaceBodies == {NullBody} \cup {[isNull |-> FALSE, place |-> p] : p \in Places}

SearchBodies ==
    {NullBody}
    \cup {[isNull |-> FALSE, places |-> ps] :
            ps \in {Undefined, Some(<<>>)} \cup {Some(<<p>>) : p \in Places}}

OkElement(i, j) ==
    [status |-> "OK",
     distance |-> Some([text |-> NumStr(i) \o "." \o NumStr(j) \o " km",
                        value |-> 1000 * i + 100 * j]),
     duration |-> Some([text |-> NumStr(10 * i + j) \o " mins",
                        value |-> 600 * i + 60 * j])]
FailedElement(status) == [status |-> status, distance |-> Undefined, duration |-> Undefined]

Element(pattern, i, j) ==
    CASE pattern = "ok" -> OkElement(i, j)
      [] pattern = "mixed" -> IF (i + j) % 2 = 0 THEN OkElement(i, j)
                              ELSE FailedElement("NOT_FOUND")
      [] pattern = "none" -> FailedElement("ZERO_RESULTS")
      [] pattern = "bare" -> [OkElement(i, j) EXCEPT !.duration = Undefined]
      \* DistanceMatrixElement has distance? and duration?: status OK with neither
      [] pattern = "empty" -> IF j = 1 THEN FailedElement("OK") ELSE OkElement(i, j)
      \* status is any string: a status other than OK with a distance and a duration
      [] pattern = "stale" -> IF j = 1 THEN [OkElement(i, j) EXCEPT !.status = "NOT_FOUND"]
                              ELSE OkElement(i, j)

Row(pattern, i, n) == [elements |-> Some([j \in 1..n |-> Element(pattern, i, j)])]

DistanceBody(status, origins, destinations, rows) ==
    [isNull |-> FALSE, status |-> status, origin_addresses |-> origins,
     destination_addresses |-> destinations, rows |-> rows]

\* the m x n grid the upstream documents
Grid(pattern, m, n) ==
    DistanceBody(Some("OK"), Some(Names("Origin ", m)), Some(Names("Destination ", n)),
                 Some([i \in 1..m |-> Row(pattern, i, n)]))

\* the largest grid the schema allows, with addresses as long as the upstream formats them
LongGrid ==
    DistanceBody(Some("OK"),
                 Some(Names("1600 Amphitheatre Parkway, Mountain View, CA 94043, USA #",
                            MaxOrigins)),
                 Some(Names("1 Infinite Loop, Cupertino, CA 95014, United States #",
                            MaxDestinations)),
                 Some([i \in 1..MaxOrigins |-> Row("ok", i, MaxDestinations)]))

DistanceBodies ==
    {NullBody}
    \cup {Grid(pattern, m, n) : pattern \in {"ok", "mixed", "none", "bare", "empty", "stale"},
                                m \in 0..MaxGrid, n \in 0..MaxGrid}
    \cup {Grid("ok", MaxOrigins, MaxDestinations), LongGrid}
    \cup {DistanceBody(status, Undefined, Undefined, Undefined) :
            status \in {Some("INVALID_REQUEST"), Some("OVER_QUERY_LIMIT"), Undefined}}
    \* bodies that are not the documented grid
    \cup {DistanceBody(Some("OK"), Undefined, Undefined, Undefined),
          DistanceBody(Some("OK"), Some(Names("Origin ", 2)), Some(Names("Destination ", 1)),
                       Some(<<Row("ok", 1, 1)>>)),
          DistanceBody(Some("OK"), Some(Names("Origin ", 1)), Some(Names("Destination ", 2)),
                       Some(<<Row("ok", 1, 1)>>)),
          DistanceBody(Some("OK"), Some(Names("Origin ", 1)), Some(Names("Destination ", 1)),
                       Some(<<[elements |-> Undefined]>>))}

Replies(op) ==
    IF op = "none" THEN {} ELSE
    Failures \cup
    {Response(200, d) :
        d \in CASE op = "geocodeAddress" -> GeocodeBodies
                [] op = "getPlaceDetailsById" -> PlaceBodies
                [] op = "searchAndGetPlaceDetails" -> SearchBodies
                [] op = "calculateDistanceMatrix" -> DistanceBodies}

-----------------------------------------------------------------------------
(* The state machine *)

Invocations == {"inv1", "inv2"}

NoRequestParams == [name |-> "", arguments |-> NoArgs]
NoInput == [response_format |-> "none"]

Init ==
    /\ pc = [i \in Invocations |-> "idle"]
    /\ req = [i \in Invocations |-> NoRequestParams]
    /\ validated = [i \in Invocations |-> NoInput]
    /\ call = [i \in Invocations |-> NoRequest]
    /\ nreq = [i \in Invocations |-> 0]
    /\ reply = [i \in Invocations |-> NoReply]
    /\ outcome = [i \in Invocations |-> NoOutcome]
    /\ body = [i \in Invocations |-> Undefined]
    /\ resp = [i \in Invocations |-> NoResult]
    /\ escaped = [i \in Invocations |-> FALSE]
    /\ placesApi = [apiKey |-> "test-key",
                    baseUrl |-> "https://maps.googleapis.com/maps/api",
                    placesBaseUrl |-> "https://places.googleapis.com/v1"]

\* the transport hands the handler a request; the handler runs to its await, or to its end
Invoke(i, name, args) ==
    /\ pc[i] = "idle"
    /\ req' = [req EXCEPT ![i] = [name |-> name, arguments |-> args]]
    /\ LET h == HandlerStart(placesApi, name, args) IN
       IF h.k = "await"
       THEN /\ validated' = [validated EXCEPT ![i] = h.data]
            /\ call' = [call EXCEPT ![i] = h.request]
            /\ nreq' = [nreq EXCEPT ![i] = @ + 1]
            /\ pc' = [pc EXCEPT ![i] = "awaiting"]
            /\ UNCHANGED <<body, resp, escaped>>
       ELSE LET out == HandlerCatch(h) IN
            /\ resp' = [resp EXCEPT ![i] = out.result]
            /\ body' = [body EXCEPT ![i] = out.body]
            /\ escaped' = [escaped EXCEPT ![i] = out.escaped]
            /\ pc' = [pc EXCEPT ![i] = "done"]
            /\ UNCHANGED <<validated, call, nreq>>
    /\ UNCHANGED <<reply, outcome, placesApi>>

\* the upstream answers (or fails): the client method resumes after its await of axios
\* and returns its outcome.  The handler is still suspended: its continuation is a later
\* job, and other callbacks run before it
Reply(i, r) ==
    /\ pc[i] = "awaiting"
    /\ reply' = [reply EXCEPT ![i] = r]
    /\ outcome' = [outcome EXCEPT ![i] = ClientMethod(call[i].op, r)]
    /\ pc' = [pc EXCEPT ![i] = "returned"]
    /\ UNCHANGED <<req, validated, call, nreq, body, resp, escaped, placesApi>>

\* faulty variant of Resume: the handler keeps its result in a variable of the module,
\* which every invocation returns
Resume_SharedResult(i) ==
    /\ pc[i] = "returned"
    /\ LET out == HandlerCatch(HandlerResume(req[i].name, validated[i], outcome[i]))
       IN /\ resp' = [j \in Invocations |-> out.result]
          /\ body' = [body EXCEPT ![i] = out.body]
          /\ escaped' = [escaped EXCEPT ![i] = out.escaped]
    /\ pc' = [pc EXCEPT ![i] = "done"]
    /\ UNCHANGED <<req, validated, call, nreq, reply, outcome, placesApi>>

\* the handler resumes after its await of the client method with the outcome, and runs
\* to its end
Resume(i) ==
    /\ pc[i] = "returned"
    /\ LET out == HandlerCatch(HandlerResume(req[i].name, validated[i], outcome[i]))
       IN /\ resp' = [resp EXCEPT ![i] = out.result]
          /\ body' = [body EXCEPT ![i] = out.body]
          /\ escaped' = [escaped EXCEPT ![i] = out.escaped]
    /\ pc' = [pc EXCEPT ![i] = "done"]
    /\ UNCHANGED <<req, validated, call, nreq, reply, outcome, placesApi>>

\* the transport takes the response; the invocation's locals are gone
Deliver(i) ==
    /\ pc[i] = "done"
    /\ pc' = [pc EXCEPT ![i] = "idle"]
    /\ req' = [req EXCEPT ![i] = NoRequestParams]
    /\ validated' = [validated EXCEPT ![i] = NoInput]
    /\ call' = [call EXCEPT ![i] = NoRequest]
    /\ nreq' = [nreq EXCEPT ![i] = 0]
    /\ reply' = [reply EXCEPT ![i] = NoReply]
    /\ outcome' = [outcome EXCEPT ![i] = NoOutcome]
    /\ body' = [body EXCEPT ![i] = Undefined]
    /\ resp' = [resp EXCEPT ![i] = NoResult]
    /\ escaped' = [escaped EXCEPT ![i] = FALSE]
    /\ UNCHANGED placesApi

\* one invocation at a time
Next ==
    \/ \E name \in ToolNames, args \in ArgBags : Invoke("inv1", name, args)
    \/ \E r \in Replies(call["inv1"].op) : Reply("inv1", r)
    \/ Resume("inv1")
    \/ Deliver("inv1")

Spec == Init /\ [][Next]_vars

-----------------------------------------------------------------------------
(* Invocations in flight together.  The handler is an async function: the  *)
(* transport may call it again while an earlier call is suspended at its   *)
(* await, the replies may come in any order, and the continuations of the  *)
(* client methods and of the handlers run as separate jobs in any order.   *)

ToolCall(name, args) == [name |-> name, arguments |-> args]

ConcRequests ==
    {ToolCall("google_maps_geocode_address", Args([EmptyFields EXCEPT !.address = VStr("Paris")])),
     ToolCall("google_maps_geocode_address", Args([EmptyFields EXCEPT !.address = VStr("")])),
     ToolCall("google_maps_get_place_details",
              Args([EmptyFields EXCEPT !.query = VStr("cafe")])),
     ToolCall("google_maps_get_place_details",
              Args([EmptyFields EXCEPT !.place_id = VStr("ChIJ1"),
                                       !.response_format = VStr("json")])),
     ToolCall("google_maps_calculate_distance_matrix",
              Args([EmptyFields EXCEPT !.origins = VStrings(<<"A", "B">>),
                                       !.destinations = VStrings(<<"X">>),
                                       !.response_format = VStr("json")])),
     ToolCall("google_maps_reverse_geocode", NoArgs)}

ConcReplies(op) ==
    IF op = "none" THEN {} ELSE
    {Timeout, Response(403, NullBody)} \cup
    {Response(200, d) :
        d \in CASE op = "geocodeAddress" ->
                    {GeocodeBody(Some("OK"),
                                 Some(<<GeocodeItem("ChIJ1", "Paris, France",
                                                    Some([lat |-> 48, lng |-> 2])),
                                        GeocodeItem("ChIJ2", "Paris, TX, USA",
                                                    Some([lat |-> 33, lng |-> -95]))>>)),
                     GeocodeBody(Some("ZERO_RESULTS"), Some(<<>>))}
                [] op = "getPlaceDetailsById" ->
                    {[isNull |-> FALSE,
                      place |-> Place(Some("Cafe A"), Some([latitude |-> 48, longitude |-> 2]),
                                      Undefined, Undefined)]}
                [] op = "searchAndGetPlaceDetails" ->
                    {[isNull |-> FALSE,
                      places |-> Some(<<Place(Some("Cafe A"),
                                              Some([latitude |-> 48, longitude |-> 2]),
                                              Undefined, Undefined)>>)],
                     [isNull |-> FALSE, places |-> Some(<<>>)]}
                [] op = "calculateDistanceMatrix" -> {Grid("mixed", 2, 1)}}

\* any invocation may start, be answered or be delivered at any time
NextConc ==
    \E i \in Invocations :
        \/ \E q \in ConcRequests : Invoke(i, q.name, q.arguments)
        \/ \E r \in ConcReplies(call[i].op) : Reply(i, r)
        \/ Resume(i)
        \/ Deliver(i)

SpecConc == Init /\ [][NextConc]_vars

-----------------------------------------------------------------------------
(* Properties.  Helpers first. *)

StartsWith(s, prefix) == Len(s) >= Len(prefix) /\ SubSeq(s, 1, Len(prefix)) = prefix
Contains(s, sub) ==
    \E k \in 1..(Len(s) - Len(sub) + 1) : SubSeq(s, k, k + Len(sub) - 1) = sub

Started(i) == pc[i] # "idle"
Done(i) == pc[i] = "done"
Text(i) == resp[i].content[1].text
FlaggedError(i) == resp[i].isError = Some(TRUE)
NoUpstreamCall(i) == nreq[i] = 0 /\ call[i] = NoRequest

\* a field that is not a key of the bag, or is the empty string
Unset(v) == v.t = "undefined" \/ (v.t = "string" /\ v.s = "")
NonEmptyString(v) == v.t = "string" /\ v.s # ""

\* the schema of a catalogued tool
ToolSchema(name, args) ==
    CASE name = "google_maps_geocode_address" -> GeocodeInputSchema(args)
      [] name = "google_maps_get_place_details" -> PlaceDetailsInputSchema(args)
      [] name = "google_maps_calculate_distance_matrix" -> DistanceMatrixInputSchema(args)

(* C1: an invocation whose tool name is not one of the three catalogued     *)
(* names ends, whatever its argument bag, with isError = true and the text *)
(* "Error: Unknown tool: <name>", and issues no upstream request.          *)
C1_UnknownToolRejected ==
    \A i \in Invocations :
        (Started(i) /\ req[i].name \notin KnownTools) =>
            /\ Done(i)
            /\ NoUpstreamCall(i)
            /\ FlaggedError(i)
            /\ resp[i].content = TextContent("Error: Unknown tool: " \o req[i].name)

\* an unknown name with a bag the geocode tool would accept
C1_Witness ==
    \E i \in Invocations :
        /\ Done(i) /\ req[i].name = "geocode_address"
        /\ GeocodeInputSchema(req[i].arguments).success
        /\ FlaggedError(i) /\ nreq[i] = 0

(* C2: a place-details invocation in which place_id and query are both     *)
(* unset or empty fails validation: it ends with isError = true and the    *)
(* schema's issues as text (the refinement's message among them unless a   *)
(* field of a wrong type aborted the parse), and issues no upstream        *)
(* request.                                                                *)
C2_NeitherIdentifierRejected ==
    \A i \in Invocations :
        LET args == req[i].arguments IN
        (/\ Started(i) /\ req[i].name = "google_maps_get_place_details"
         /\ Unset(args.f.place_id) /\ Unset(args.f.query)) =>
            /\ Done(i)
            /\ NoUpstreamCall(i)
            /\ FlaggedError(i)
            /\ StartsWith(Text(i), "Error: [")
            /\ (args.isObject
                /\ args.f.response_format \in {VUndef, VStr("markdown"), VStr("json")}) =>
                    Contains(Text(i),
                             "\"message\": \"Either place_id or query must be provided\"")

\* place_id is the empty string and query is not given
C2_Witness ==
    \E i \in Invocations :
        /\ Done(i) /\ req[i].name = "google_maps_get_place_details"
        /\ req[i].arguments.isObject
        /\ req[i].arguments.f.place_id = VStr("") /\ req[i].arguments.f.query = VUndef
        /\ FlaggedError(i) /\ nreq[i] = 0

(* C3: a place-details invocation in which place_id and query are both set *)
(* fails validation and issues no upstream request, so that a request      *)
(* reaches the upstream only with exactly one of the two.                  *)
C3_BothIdentifiersRejected ==
    \A i \in Invocations :
        LET args == req[i].arguments IN
        (Started(i) /\ req[i].name = "google_maps_get_place_details") =>
            /\ (NonEmptyString(args.f.place_id) /\ NonEmptyString(args.f.query)) =>
                    (Done(i) /\ NoUpstreamCall(i) /\ FlaggedError(i))
            /\ nreq[i] > 0 =>
                    (NonEmptyString(args.f.place_id) # NonEmptyString(args.f.query))

(* C4: no exception leaves the handler, and every invocation that has      *)
(* ended returned a response whose content is exactly one block of type    *)
(* "text", whatever the name, the bag, and what the upstream did.          *)
C4_OneTextBlock ==
    \A i \in Invocations :
        /\ ~escaped[i]
        /\ Done(i) => (Len(resp[i].content) = 1 /\ resp[i].content[1].type = "text")

\* a 200 body without a location: the markdown rendering throws in the handler
C4_Witness ==
    \E i \in Invocations :
        /\ Done(i) /\ req[i].name = "google_maps_get_place_details"
        /\ reply[i].kind = "response" /\ reply[i].status = 200
        /\ ~outcome[i].isError
        /\ Text(i) = "Error: Cannot read properties of undefined (reading 'latitude')"

(* C5: for each of the three tools, an argument bag the tool's schema      *)
(* rejects ends the invocation with isError = true and the text "Error: "  *)
(* followed by the ZodError message, which carries every issue's message;  *)
(* an upstream request is issued only for a bag the schema accepted.       *)
C5_ValidationGatesUpstream ==
    \A i \in Invocations :
        (Started(i) /\ req[i].name \in KnownTools) =>
            LET parsed == ToolSchema(req[i].name, req[i].arguments) IN
            /\ ~parsed.success =>
                    /\ Done(i)
                    /\ NoUpstreamCall(i)
                    /\ FlaggedError(i)
                    /\ Text(i) = "Error: " \o ZodErrorMessage(parsed.issues)
                    /\ \A n \in 1..Len(parsed.issues) :
                            Contains(Text(i), parsed.issues[n].message)
            /\ nreq[i] > 0 => parsed.success

\* eleven origins
C5_Witness ==
    \E i \in Invocations :
        /\ Done(i) /\ req[i].name = "google_maps_calculate_distance_matrix"
        /\ req[i].arguments.f.origins.t = "array"
        /\ Len(req[i].arguments.f.origins.a) = MaxOrigins + 1
        /\ FlaggedError(i) /\ nreq[i] = 0
        /\ Contains(Text(i), "Maximum 10 origins allowed")

\* the upstream answered 200 with a body that is an object
Answered200(i, op) ==
    /\ Done(i) /\ call[i].op = op
    /\ reply[i].kind = "response" /\ reply[i].status = 200 /\ ~reply[i].data.isNull
\* the upstream answered with an HTTP error status
AnsweredStatus(i, status) ==
    Done(i) /\ reply[i].kind = "response" /\ reply[i].status = status

(* C6: when the geocoding body has status OK and a results list of n       *)
(* entries, the client's outcome is the first min(3, n) of them, mapped    *)
(* one to one and in the upstream's order (so at most 3); the only other   *)
(* outcome is a failure, when one of those first entries has no geometry.  *)
C6_FirstThreeInOrder ==
    \A i \in Invocations :
        (/\ Answered200(i, "geocodeAddress")
         /\ reply[i].data.status = Some("OK") /\ reply[i].data.results.has) =>
            LET upstream == reply[i].data.results.v
                k == IF Len(upstream) < 3 THEN Len(upstream) ELSE 3
            IN IF \A n \in 1..k : upstream[n].geometry.has
               THEN /\ ~outcome[i].isError
                    /\ Len(outcome[i].value) = k
                    /\ \A n \in 1..k :
                          outcome[i].value[n] =
                              [place_id |-> upstream[n].place_id,
                               address |-> upstream[n].formatted_address,
                               latitude |-> upstream[n].geometry.v.lat,
                               longitude |-> upstream[n].geometry.v.lng]
               ELSE outcome[i].isError

\* four upstream results, the first two different, three returned
C6_Witness ==
    \E i \in Invocations :
        /\ Answered200(i, "geocodeAddress")
        /\ reply[i].data.status = Some("OK") /\ reply[i].data.results.has
        /\ Len(reply[i].data.results.v) = 4
        /\ reply[i].data.results.v[1] # reply[i].data.results.v[2]
        /\ ~outcome[i].isError /\ Len(outcome[i].value) = 3

(* C7: when the geocoding body has status ZERO_RESULTS, the client's       *)
(* outcome is the empty sequence, not a failure, and the response is the   *)
(* "No Results Found" text without isError = true.                         *)
C7_ZeroResultsIsSuccess ==
    \A i \in Invocations :
        (Answered200(i, "geocodeAddress") /\ reply[i].data.status = Some("ZERO_RESULTS")) =>
            /\ ~outcome[i].isError
            /\ outcome[i].value = <<>>
            /\ ~FlaggedError(i)
            /\ Text(i) = "No Results Found\n" \o Rule50
                         \o "\nNo geocoding results found for: " \o validated[i].address

\* ZERO_RESULTS with no results field in the body
C7_Witness ==
    \E i \in Invocations :
        /\ Answered200(i, "geocodeAddress")
        /\ reply[i].data.status = Some("ZERO_RESULTS") /\ ~reply[i].data.results.has
        /\ ~outcome[i].isError /\ ~FlaggedError(i)

(* C8: for every rendered body: longer than the cap, the returned text is  *)
(* the body's first CHARACTER_LIMIT characters followed by a notice that   *)
(* states the body's length and the cap, and metadata.truncated is true;   *)
(* at or under the cap, the text is the body and metadata.truncated is     *)
(* false.                                                                  *)
C8_TruncatedAtCap ==
    \A i \in Invocations :
        (Done(i) /\ body[i].has) =>
            LET content == body[i].v
                text == Text(i)
            IN /\ resp[i].metadata.has
               /\ IF Len(content) > CHARACTER_LIMIT
                  THEN /\ Len(text) > CHARACTER_LIMIT
                       /\ SubSeq(text, 1, CHARACTER_LIMIT) = SubSeq(content, 1, CHARACTER_LIMIT)
                       /\ LET notice == SubSeq(text, CHARACTER_LIMIT + 1, Len(text)) IN
                          /\ Contains(notice, "Original length: " \o ToString(Len(content))
                                              \o " characters")
                          /\ Contains(notice, "exceeded " \o ToString(CHARACTER_LIMIT)
                                              \o " character limit")
                       /\ resp[i].metadata.v.truncated = TRUE
                  ELSE /\ text = content
                       /\ resp[i].metadata.v.truncated = FALSE

\* a body one character over the cap
C8_Witness ==
    \E i \in Invocations :
        /\ Done(i) /\ body[i].has
        /\ Len(body[i].v) = CHARACTER_LIMIT + 1
        /\ resp[i].metadata.has /\ resp[i].metadata.v.truncated = TRUE

ApiNames == {"Geocoding API", "Places API (New)", "Distance Matrix API"}
ApiOf(op) ==
    CASE op = "geocodeAddress" -> "Geocoding API"
      [] op = "getPlaceDetailsById" -> "Places API (New)"
      [] op = "searchAndGetPlaceDetails" -> "Places API (New)"
      [] op = "calculateDistanceMatrix" -> "Distance Matrix API"

(* C9: an HTTP 403 on any of the four client operations gives a failure    *)
(* whose message asks to enable the operation's own API (the Geocoding    *)
(* API, the Places API (New), the Distance Matrix API) and names neither   *)
(* of the other two; the response carries it with isError = true.          *)
C9_ForbiddenNamesTheApi ==
    \A i \in Invocations :
        AnsweredStatus(i, 403) =>
            /\ outcome[i].isError
            /\ StartsWith(outcome[i].error, "Access denied.")
            /\ Contains(outcome[i].error,
                        "has " \o ApiOf(call[i].op) \o " enabled in Google Cloud Console")
            /\ \A other \in ApiNames \ {ApiOf(call[i].op)} : ~Contains(outcome[i].error, other)
            /\ FlaggedError(i)
            /\ Contains(Text(i), outcome[i].error)

\* a 403 on the geocoding request
C9_Witness ==
    \E i \in Invocations :
        /\ AnsweredStatus(i, 403) /\ call[i].op = "geocodeAddress"
        /\ outcome[i].isError /\ FlaggedError(i)

(* C10: an HTTP 404 on the lookup by ID gives the "Place not found"         *)
(* failure; an HTTP 404 on the text search gives the "Search endpoint not  *)
(* found" failure, which does not say "Place not found"; the two messages  *)
(* differ.                                                                 *)
C10_NotFoundNotConflated ==
    /\ \A i \in Invocations :
        AnsweredStatus(i, 404) =>
            /\ call[i].op = "getPlaceDetailsById" =>
                    /\ outcome[i].isError
                    /\ StartsWith(outcome[i].error, "Place not found.")
            /\ call[i].op = "searchAndGetPlaceDetails" =>
                    /\ outcome[i].isError
                    /\ StartsWith(outcome[i].error, "Search endpoint not found.")
                    /\ ~Contains(outcome[i].error, "Place not found")
    /\ getPlaceDetailsById(Response(404, NullBody)).error
          # searchAndGetPlaceDetails(Response(404, NullBody)).error

\* a 404 on the text search
C10_Witness ==
    \E i \in Invocations :
        /\ AnsweredStatus(i, 404) /\ call[i].op = "searchAndGetPlaceDetails"
        /\ outcome[i].isError /\ FlaggedError(i)

\* the statuses an operation's catch has a case for
MappedStatuses(op) ==
    {400, 403, 429} \cup (IF op \in {"getPlaceDetailsById", "searchAndGetPlaceDetails"}
                          THEN {404} ELSE {})
\* the malformed-request message of each operation
MalformedRequestMessage(op) ==
    CASE op = "geocodeAddress" -> "Invalid address format. Please provide a valid address."
      [] op = "getPlaceDetailsById" ->
            "Invalid request. Please check that the place_id format is correct."
      [] op = "searchAndGetPlaceDetails" ->
            "Invalid search query. Please provide a valid search term."
      [] op = "calculateDistanceMatrix" ->
            "Invalid request. Please check that origins and destinations are valid addresses or coordinates."

(* C11: on each of the four client operations, an HTTP 429 gives the       *)
(* rate-limit failure (the same message for all four), an HTTP 400 gives   *)
(* the operation's malformed-request failure, and any other error status   *)
(* the operation has no case for gives "API error (<status>). ...", with   *)
(* the status in it.                                                       *)
C11_StatusTaxonomy ==
    \A i \in Invocations :
        (Done(i) /\ reply[i].kind = "response" /\ ~Resolves(reply[i])) =>
            LET status == reply[i].status
                op == call[i].op
            IN /\ outcome[i].isError
               /\ status = 429 =>
                    outcome[i].error
                        = "Rate limit exceeded. Please wait a moment before making more requests."
               /\ status = 400 =>
                    /\ outcome[i].error = MalformedRequestMessage(op)
                    /\ StartsWith(outcome[i].error, "Invalid ")
               /\ status \notin MappedStatuses(op) =>
                    outcome[i].error
                        = "API error (" \o ToString(status)
                          \o "). Please try again or contact support if the issue persists."

\* a 404 on the distance matrix request, which has no case for it
C11_Witness ==
    \E i \in Invocations :
        /\ Done(i) /\ call[i].op = "calculateDistanceMatrix"
        /\ reply[i].kind = "response" /\ reply[i].status = 404
        /\ Contains(outcome[i].error, "API error (404)")

\* the heading of a tool's error text
ErrorHeading(name) ==
    CASE name = "google_maps_geocode_address" -> "Geocoding Error"
      [] name = "google_maps_get_place_details" -> "Place Details Error"
      [] name = "google_maps_calculate_distance_matrix" -> "Distance Matrix Error"

(* C12: when the request's timeout expires, each of the four client        *)
(* operations returns a "Request timed out" failure, not the generic       *)
(* "API error" one, and the response carries it with isError = true.       *)
C12_TimeoutCategory ==
    \A i \in Invocations :
        (Done(i) /\ reply[i].kind = "timeout") =>
            /\ outcome[i].isError
            /\ StartsWith(outcome[i].error, "Request timed out. Please try again")
            /\ ~Contains(outcome[i].error, "API error")
            /\ FlaggedError(i)
            /\ Text(i) = ErrorHeading(req[i].name) \o "\n" \o Rule50 \o "\n" \o outcome[i].error

\* a timeout of the distance matrix request
C12_Witness ==
    \E i \in Invocations :
        /\ Done(i) /\ reply[i].kind = "timeout" /\ call[i].op = "calculateDistanceMatrix"
        /\ call[i].timeout = 10000
        /\ outcome[i].isError /\ FlaggedError(i)

(* C13: an invocation issues one upstream request when its tool is         *)
(* catalogued and its bag passes the tool's schema, and none otherwise,    *)
(* at every point from its start to its end; when the request fails or the *)
(* client otherwise returns a failure, the count stays at one and the      *)
(* response is the one error text carrying that failure.                   *)
C13_OneRequestNoRetry ==
    \A i \in Invocations :
        Started(i) =>
            /\ nreq[i] = (IF req[i].name \in KnownTools
                             /\ ToolSchema(req[i].name, req[i].arguments).success
                          THEN 1 ELSE 0)
            /\ nreq[i] = 1 <=> call[i] # NoRequest
            /\ (Done(i) /\ nreq[i] = 1 /\ outcome[i].isError) =>
                    /\ FlaggedError(i)
                    /\ Text(i) = ErrorHeading(req[i].name) \o "\n" \o Rule50 \o "\n"
                                 \o outcome[i].error

\* a text search that failed with a 500: one request, one error
C13_Witness ==
    \E i \in Invocations :
        /\ Done(i) /\ call[i].op = "searchAndGetPlaceDetails"
        /\ reply[i].kind = "response" /\ reply[i].status = 500
        /\ nreq[i] = 1 /\ outcome[i].isError /\ FlaggedError(i)

\* the distance matrix operation returned a result, not { error }
DistanceSuccess(i) ==
    /\ Answered200(i, "calculateDistanceMatrix")
    /\ ~outcome[i].isError

\* m rows of n elements, for m origin addresses and n destination addresses
DenseGrid(matrix, m, n) ==
    /\ Len(matrix.origin_addresses) = m
    /\ Len(matrix.destination_addresses) = n
    /\ Len(matrix.rows) = m
    /\ \A k \in 1..Len(matrix.rows) :
          matrix.rows[k].elements.has /\ Len(matrix.rows[k].elements.v) = n

(* C14: every result the distance matrix operation returns is a dense      *)
(* grid: as many rows as origin addresses, and in every row as many        *)
(* elements as destination addresses.                                      *)
C14_SuccessIsDenseGrid ==
    \A i \in Invocations :
        DistanceSuccess(i) =>
            DenseGrid(outcome[i].value, Len(outcome[i].value.origin_addresses),
                      Len(outcome[i].value.destination_addresses))

(* C15: a distance matrix invocation with M origins and N destinations     *)
(* that succeeds returns a result of M rows of N elements each, and        *)
(* metadata with total_elements = M * N.                                   *)
C15_RowsElementsTotal ==
    \A i \in Invocations :
        (DistanceSuccess(i) /\ resp[i].metadata.has) =>
            LET M == Len(validated[i].origins)
                N == Len(validated[i].destinations)
                matrix == outcome[i].value
            IN /\ Len(matrix.rows) = M
               /\ \A k \in 1..M :
                    matrix.rows[k].elements.has /\ Len(matrix.rows[k].elements.v) = N
               /\ resp[i].metadata.v.total_elements = M * N

\* the elements of a result, row by row
ElementsOf(matrix) ==
    UNION {{matrix.rows[k].elements.v[n] : n \in 1..Len(matrix.rows[k].elements.v)} :
            k \in {k \in 1..Len(matrix.rows) : matrix.rows[k].elements.has}}

(* C16, as claimed: the json rendering and the markdown rendering of a     *)
(* successful distance matrix result both have every element's numbers in  *)
(* them, digit for digit: in json each distance and duration as            *)
(* "value": <n>, in markdown each as "(<n> meters)" and "(<n> seconds)".   *)
C16_NumbersVerbatim ==
    \A i \in Invocations :
        (DistanceSuccess(i) /\ body[i].has) =>
            \A e \in ElementsOf(outcome[i].value) :
                IF validated[i].response_format = "json"
                THEN /\ e.distance.has =>
                            Contains(body[i].v, "\"value\": " \o ToString(e.distance.v.value) \o "\n")
                     /\ e.duration.has =>
                            Contains(body[i].v, "\"value\": " \o ToString(e.duration.v.value) \o "\n")
                ELSE /\ e.distance.has =>
                            Contains(body[i].v, "(" \o ToString(e.distance.v.value) \o " meters)")
                     /\ e.duration.has =>
                            Contains(body[i].v, "(" \o ToString(e.duration.v.value) \o " seconds)")

\* the distances and durations of the elements of a result whose status is OK
OkDistances(matrix) ==
    {e.distance.v.value : e \in {x \in ElementsOf(matrix) : x.status = "OK" /\ x.distance.has}}
OkDurations(matrix) ==
    {e.duration.v.value : e \in {x \in ElementsOf(matrix) : x.status = "OK" /\ x.duration.has}}

(* C16, amended: the json rendering of a successful distance matrix result *)
(* has every element's numbers in it, digit for digit, whatever the        *)
(* element's status.  The markdown rendering has the numbers of the        *)
(* elements whose status is OK; of an element with another status it has   *)
(* the status, and a number that only such elements carry is not in it.    *)
C16_NumbersOfOkElements ==
    \A i \in Invocations :
        (DistanceSuccess(i) /\ body[i].has) =>
            \A e \in ElementsOf(outcome[i].value) :
                IF validated[i].response_format = "json"
                THEN /\ e.distance.has =>
                            Contains(body[i].v, "\"value\": " \o ToString(e.distance.v.value) \o "\n")
                     /\ e.duration.has =>
                            Contains(body[i].v, "\"value\": " \o ToString(e.duration.v.value) \o "\n")
                ELSE IF e.status = "OK"
                THEN /\ e.distance.has =>
                            Contains(body[i].v, "(" \o ToString(e.distance.v.value) \o " meters)")
                     /\ e.duration.has =>
                            Contains(body[i].v, "(" \o ToString(e.duration.v.value) \o " seconds)")
                ELSE /\ Contains(body[i].v, "\n- **Status**: " \o e.status \o "\n")
                     /\ (e.distance.has
                         /\ e.distance.v.value \notin OkDistances(outcome[i].value)) =>
                            ~Contains(body[i].v, ToString(e.distance.v.value) \o " meters")
                     /\ (e.duration.has
                         /\ e.duration.v.value \notin OkDurations(outcome[i].value)) =>
                            ~Contains(body[i].v, ToString(e.duration.v.value) \o " seconds")

\* a 2 x 2 grid in markdown whose first column has status NOT_FOUND with a distance and a
\* duration: the numbers of the second column are in the text, those of the first are not
C16_Witness ==
    /\ DistanceSuccess("inv1") /\ body["inv1"].has
    /\ validated["inv1"].response_format = "markdown"
    /\ reply["inv1"].data = Grid("stale", 2, 2)
    /\ outcome["inv1"].value.rows[2].elements.v[1].distance.v.value = 2100
    /\ Contains(body["inv1"].v, "(2200 meters)") /\ Contains(body["inv1"].v, "(1320 seconds)")
    /\ ~Contains(body["inv1"].v, "2100 meters") /\ ~Contains(body["inv1"].v, "1260 seconds")

-----------------------------------------------------------------------------
(* Reading a json text back, as a caller of the tool does with JSON.parse. *)
(* The reader works on the text alone.  It accepts a text when it is one   *)
(* object: it opens with "{", its brackets outside strings balance, and    *)
(* the object closes at the last character and not before.  It then reads  *)
(* the lists off the layout JSON.stringify(value, null, 2) writes: a value *)
(* at depth d starts a line indented by 2 * d spaces.  The texts read have *)
(* no escaped quote in them.                                               *)

CharAt(s, k) == SubSeq(s, k, k)

\* the effect of a stretch of text on the bracket depth: the depth it ends at and the
\* lowest depth after any of its characters, both relative to its start, and whether it
\* ends inside a string
Stretch(inString, net, low) == [inString |-> inString, net |-> net, low |-> low]
ScanChar(c) ==
    [out |-> CASE c = "\"" -> Stretch(TRUE, 0, 0)
               [] c \in {"{", "["} -> Stretch(FALSE, 1, 1)
               [] c \in {"}", "]"} -> Stretch(FALSE, -1, -1)
               [] OTHER -> Stretch(FALSE, 0, 0),
     in |-> IF c = "\"" THEN Stretch(FALSE, 0, 0) ELSE Stretch(TRUE, 0, 0)]
Then(a, b) ==
    LET after(x) == IF x.inString THEN b.in ELSE b.out
        both(x) == Stretch(after(x).inString, x.net + after(x).net,
                           IF x.low < x.net + after(x).low THEN x.low
                           ELSE x.net + after(x).low)
    IN [out |-> both(a.out), in |-> both(a.in)]
RECURSIVE Scan(_, _, _)
Scan(s, lo, hi) ==
    IF lo = hi THEN ScanChar(CharAt(s, lo))
    ELSE LET mid == (lo + hi) \div 2 IN Then(Scan(s, lo, mid), Scan(s, mid + 1, hi))

IsOneObject(s) ==
    /\ Len(s) >= 2 /\ CharAt(s, 1) = "{" /\ CharAt(s, Len(s)) = "}"
    /\ LET before == Scan(s, 1, Len(s) - 1).out IN
       ~before.inString /\ before.net = 1 /\ before.low >= 1

LineStarts(s) == {1} \cup {k + 1 : k \in {k \in 1..(Len(s) - 1) : CharAt(s, k) = "\n"}}
HasAt(s, p, prefix) ==
    p + Len(prefix) - 1 <= Len(s) /\ SubSeq(s, p, p + Len(prefix) - 1) = prefix
\* the lines strictly between two positions that start with a prefix
LinesBetween(starts, s, lo, hi, prefix) ==
    {p \in starts : lo < p /\ p < hi /\ HasAt(s, p, prefix)}
Least(S) == CHOOSE p \in S : \A q \in S : p <= q
\* the lines of the elements of the list that is the root's member `key`: none when the
\* list is written "[]" on the key's line
ListItems(starts, s, key, itemPrefix) ==
    LET keyLines == {p \in starts : HasAt(s, p, "  \"" \o key \o "\": [")} IN
    IF keyLines = {} \/ \E p \in keyLines : HasAt(s, p, "  \"" \o key \o "\": []") THEN {}
    ELSE LET at == Least(keyLines)
             closers == LinesBetween(starts, s, at, Len(s) + 1, "  ]")
         IN IF closers = {} THEN {}
            ELSE LinesBetween(starts, s, at, Least(closers), itemPrefix)
\* a set of positions, in order
InOrder(S) ==
    [k \in 1..Cardinality(S) |-> CHOOSE p \in S : Cardinality({q \in S : q < p}) = k - 1]

\* the counts a caller reads in a text: { ok: false } when the text does not parse
JsonParseCounts(s) ==
    IF ~IsOneObject(s) THEN [ok |-> FALSE, origins |-> 0, destinations |-> 0, rows |-> <<>>]
    ELSE LET starts == LineStarts(s)
             rowStarts == InOrder(ListItems(starts, s, "rows", "    {"))
             rowEnd(k) == IF k < Len(rowStarts) THEN rowStarts[k + 1] ELSE Len(s) + 1
         IN [ok |-> TRUE,
             origins |-> Cardinality(ListItems(starts, s, "origin_addresses", "    \"")),
             destinations |->
                 Cardinality(ListItems(starts, s, "destination_addresses", "    \"")),
             rows |-> [k \in 1..Len(rowStarts) |->
                         Cardinality(LinesBetween(starts, s, rowStarts[k], rowEnd(k),
                                                  "        {"))]]

\* the counts of a result of the client
CountsOf(matrix) ==
    [ok |-> TRUE,
     origins |-> Len(matrix.origin_addresses),
     destinations |-> Len(matrix.destination_addresses),
     rows |-> [k \in 1..Len(matrix.rows) |-> Len(OrEmpty(matrix.rows[k].elements))]]

DistanceJson(i) ==
    DistanceSuccess(i) /\ body[i].has /\ validated[i].response_format = "json"

(* C17, as claimed: the text returned for a successful distance matrix     *)
(* invocation in json parses, and has the result's number of origin        *)
(* addresses, destination addresses, rows and elements per row.            *)
C17_ReturnedTextRoundTrips ==
    \A i \in Invocations :
        DistanceJson(i) => JsonParseCounts(Text(i)) = CountsOf(outcome[i].value)

(* C17, amended: the json rendering of a successful distance matrix result *)
(* parses to the result's counts; the returned text is that rendering, and *)
(* so parses to them, exactly when the rendering is within the cap; over   *)
(* the cap the returned text is cut and does not parse.                    *)
C17_RoundTripWithinCap ==
    \A i \in Invocations :
        DistanceJson(i) =>
            /\ JsonParseCounts(body[i].v) = CountsOf(outcome[i].value)
            /\ IF Len(body[i].v) <= CHARACTER_LIMIT
               THEN JsonParseCounts(Text(i)) = CountsOf(outcome[i].value)
               ELSE ~JsonParseCounts(Text(i)).ok

\* the 10 x 10 grid with long addresses: over the cap, cut, and not json any more
C17_Witness ==
    \E i \in Invocations :
        /\ DistanceJson(i)
        /\ Len(outcome[i].value.rows) = MaxOrigins
        /\ Len(body[i].v) > CHARACTER_LIMIT
        /\ JsonParseCounts(body[i].v).rows = [k \in 1..MaxOrigins |-> MaxDestinations]
        /\ ~JsonParseCounts(Text(i)).ok

-----------------------------------------------------------------------------

\* a list of between lo and hi strings
StringsBetween(v, lo, hi) ==
    /\ v.t = "array" /\ Len(v.a) >= lo /\ Len(v.a) <= hi
    /\ \A n \in 1..Len(v.a) : v.a[n].t = "string"
ListOfLength(v, lengths) == v.t = "array" /\ Len(v.a) \in lengths

(* C18: a distance matrix invocation issues its upstream request only when *)
(* origins is a list of 1 to 10 strings and destinations is a list of 1 to *)
(* 10 strings; with 0 or 11 entries in either list it ends with isError =  *)
(* true, the list's size message in the text, and no upstream request.     *)
C18_ListBounds ==
    \A i \in Invocations :
        LET f == req[i].arguments.f IN
        (Started(i) /\ req[i].name = "google_maps_calculate_distance_matrix") =>
            /\ nreq[i] > 0 => (StringsBetween(f.origins, 1, 10)
                               /\ StringsBetween(f.destinations, 1, 10))
            /\ (ListOfLength(f.origins, {0, 11}) \/ ListOfLength(f.destinations, {0, 11})) =>
                    (Done(i) /\ NoUpstreamCall(i) /\ FlaggedError(i))
            /\ ListOfLength(f.origins, {0}) =>
                    Contains(Text(i), "At least one origin is required")
            /\ ListOfLength(f.origins, {11}) =>
                    Contains(Text(i), "Maximum 10 origins allowed")
            /\ ListOfLength(f.destinations, {0}) =>
                    Contains(Text(i), "At least one destination is required")
            /\ ListOfLength(f.destinations, {11}) =>
                    Contains(Text(i), "Maximum 10 destinations allowed")

\* ten origins and eleven destinations
C18_Witness ==
    \E i \in Invocations :
        /\ Done(i) /\ req[i].name = "google_maps_calculate_distance_matrix"
        /\ StringsBetween(req[i].arguments.f.origins, 10, 10)
        /\ StringsBetween(req[i].arguments.f.destinations, 11, 11)
        /\ req[i].arguments.f.verbose = VUndef
        /\ FlaggedError(i) /\ nreq[i] = 0

\* the bag without the fields no schema declares
Declared(args) == Args([args.f EXCEPT !.verbose = VUndef])

(* C19: for each of the three tools, a bag with a field the tool's schema  *)
(* does not declare ends with isError = true, an unrecognized_keys issue   *)
(* naming the field in the text, and no upstream request, also when the    *)
(* bag without that field passes the schema.                               *)
C19_UndeclaredFieldRejected ==
    \A i \in Invocations :
        (/\ Started(i) /\ req[i].name \in KnownTools
         /\ req[i].arguments.isObject /\ req[i].arguments.f.verbose # VUndef) =>
            /\ Done(i)
            /\ NoUpstreamCall(i)
            /\ FlaggedError(i)
            /\ ToolSchema(req[i].name, Declared(req[i].arguments)).success =>
                    /\ Contains(Text(i), "\"code\": \"unrecognized_keys\"")
                    /\ Contains(Text(i), "Unrecognized key(s) in object: 'verbose'")

\* a geocode bag that passes without its undeclared field
C19_Witness ==
    \E i \in Invocations :
        /\ Done(i) /\ req[i].name = "google_maps_geocode_address"
        /\ req[i].arguments.f.verbose = VStr("yes")
        /\ GeocodeInputSchema(Declared(req[i].arguments)).success
        /\ FlaggedError(i) /\ nreq[i] = 0

(* C20: when the text search answers 200 with an empty or absent places    *)
(* list, the client returns the failure "No places found for the given     *)
(* query", which is not the message of a lookup by ID that finds no place  *)
(* and does not say "Place not found"; the response carries it with        *)
(* isError = true.                                                         *)
C20_NoPlacesFound ==
    \A i \in Invocations :
        (/\ Answered200(i, "searchAndGetPlaceDetails")
         /\ (~reply[i].data.places.has \/ reply[i].data.places.v = <<>>)) =>
            /\ outcome[i].isError
            /\ outcome[i].error = "No places found for the given query"
            /\ outcome[i].error # getPlaceDetailsById(Response(404, NullBody)).error
            /\ ~Contains(outcome[i].error, "Place not found")
            /\ FlaggedError(i)
            /\ Text(i) = "Place Details Error\n" \o Rule50 \o "\n" \o outcome[i].error

\* an empty places list
C20_Witness ==
    \E i \in Invocations :
        /\ Answered200(i, "searchAndGetPlaceDetails")
        /\ reply[i].data.places = Some(<<>>)
        /\ outcome[i].isError /\ FlaggedError(i)

-----------------------------------------------------------------------------

\* the text search answered 200 and matched no place
NoPlacesMatched(i) ==
    /\ Answered200(i, "searchAndGetPlaceDetails")
    /\ (~reply[i].data.places.has \/ reply[i].data.places.v = <<>>)
\* the geocoding request answered 200 with status ZERO_RESULTS
ZeroResults(i) ==
    Answered200(i, "geocodeAddress") /\ reply[i].data.status = Some("ZERO_RESULTS")

(* C21: an empty result is not an error: the response to a geocoding       *)
(* request answered ZERO_RESULTS, and the response to a text search that   *)
(* matched no place, are both without isError = true.                      *)
C21_EmptyResultNotFlagged ==
    \A i \in Invocations :
        (ZeroResults(i) \/ NoPlacesMatched(i)) => ~FlaggedError(i)

\* the ways an invocation fails
UnknownTool(i) == req[i].name \notin KnownTools
ValidationFailure(i) ==
    req[i].name \in KnownTools /\ ~ToolSchema(req[i].name, req[i].arguments).success
ClientFailure(i) == nreq[i] = 1 /\ outcome[i].isError
\* the client returned a result and the handler threw while rendering it
UnexpectedException(i) ==
    /\ nreq[i] = 1 /\ ~outcome[i].isError
    /\ HandlerResume(req[i].name, validated[i], outcome[i]).k = "throw"
Failed(i) ==
    UnknownTool(i) \/ ValidationFailure(i) \/ ClientFailure(i) \/ UnexpectedException(i)

(* C22: a response has isError = true exactly when its invocation failed:  *)
(* an unknown tool, a rejected bag or an exception in the handler give     *)
(* "Error: " followed by the message, a failure of the client gives the    *)
(* tool's "... Error" heading followed by the client's message; a result   *)
(* of the client that the handler rendered has no isError at all.          *)
C22_FlagMarksFailure ==
    \A i \in Invocations :
        Done(i) =>
            /\ FlaggedError(i) <=> Failed(i)
            /\ ~Failed(i) => resp[i].isError = Undefined
            /\ UnknownTool(i) => Text(i) = "Error: Unknown tool: " \o req[i].name
            /\ ValidationFailure(i) =>
                    Text(i) = "Error: " \o ZodErrorMessage(
                                  ToolSchema(req[i].name, req[i].arguments).issues)
            /\ ClientFailure(i) =>
                    /\ StartsWith(Text(i), ErrorHeading(req[i].name) \o "\n")
                    /\ Text(i) = ErrorHeading(req[i].name) \o "\n" \o Rule50 \o "\n"
                                 \o outcome[i].error
            /\ UnexpectedException(i) =>
                    Text(i) = "Error: "
                              \o HandlerResume(req[i].name, validated[i], outcome[i]).message

\* a body status the client turns into a failure
C22_Witness ==
    \E i \in Invocations :
        /\ Answered200(i, "geocodeAddress")
        /\ reply[i].data.status = Some("REQUEST_DENIED")
        /\ ClientFailure(i) /\ FlaggedError(i)
        /\ Text(i) = "Geocoding Error\n" \o Rule50
                     \o "\nGeocoding failed with status: REQUEST_DENIED"

\* the client returned a result, not { error }
ClientSuccess(i) == Done(i) /\ nreq[i] = 1 /\ ~outcome[i].isError

(* C23: whenever the client returns a result and the handler does not      *)
(* throw on it, the response has a metadata map whose truncated field is   *)
(* true or false, for every tool and encoding, the geocoding result with   *)
(* no entries included.                                                    *)
C23_SuccessRecordsTruncated ==
    \A i \in Invocations :
        (ClientSuccess(i) /\ ~UnexpectedException(i)) =>
            /\ resp[i].metadata.has
            /\ resp[i].metadata.v.truncated \in BOOLEAN

\* the response of an invocation that runs alone, from its request and the upstream's reply
Alone(api, name, args, r) ==
    LET h == HandlerStart(api, name, args) IN
    IF h.k # "await" THEN HandlerCatch(h).result
    ELSE HandlerCatch(HandlerResume(name, h.data, ClientMethod(h.request.op, r))).result

(* C24 (under SpecConc): with two invocations in flight in any             *)
(* interleaving, each invocation's state is a function of its own request  *)
(* and its own reply: its response is the one it gives running alone, an   *)
(* invocation that has not ended has no response, one that has not started *)
(* has nothing, and the client's key and base URLs are the constructor's.  *)
C24_InvocationsIndependent ==
    /\ placesApi = [apiKey |-> "test-key",
                    baseUrl |-> "https://maps.googleapis.com/maps/api",
                    placesBaseUrl |-> "https://places.googleapis.com/v1"]
    /\ \A i \in Invocations :
        /\ pc[i] = "idle" =>
                /\ req[i] = NoRequestParams /\ call[i] = NoRequest /\ nreq[i] = 0
                /\ reply[i] = NoReply /\ outcome[i] = NoOutcome
                /\ resp[i] = NoResult /\ body[i] = Undefined
        /\ pc[i] = "awaiting" =>
                /\ call[i] = HandlerStart(placesApi, req[i].name, req[i].arguments).request
                /\ reply[i] = NoReply /\ outcome[i] = NoOutcome
                /\ resp[i] = NoResult /\ body[i] = Undefined
        /\ pc[i] = "returned" =>
                /\ call[i] = HandlerStart(placesApi, req[i].name, req[i].arguments).request
                /\ reply[i] # NoReply /\ outcome[i] = ClientMethod(call[i].op, reply[i])
                /\ resp[i] = NoResult /\ body[i] = Undefined
        /\ Done(i) =>
                resp[i] = Alone(placesApi, req[i].name, req[i].arguments, reply[i])

\* the text search of one invocation timed out and its handler has returned, while the
\* other's client method has returned its distance matrix and its handler has not resumed
C24_Witness ==
    /\ Done("inv1")
    /\ call["inv1"].op = "searchAndGetPlaceDetails" /\ reply["inv1"] = Timeout
    /\ FlaggedError("inv1")
    /\ pc["inv2"] = "returned"
    /\ call["inv2"].op = "calculateDistanceMatrix" /\ reply["inv2"].kind = "response"
    /\ reply["inv2"].status = 200
    /\ ~outcome["inv2"].isError /\ Len(outcome["inv2"].value.rows) = 2
    /\ resp["inv2"] = NoResult

(* C25: a lookup by ID answered with HTTP 200 is a success of the client   *)
(* whatever the body: id, address and location are copied, a display name  *)
(* that is absent or empty becomes null, absent types become the empty     *)
(* list and absent links the empty links object.                           *)
C25_Ok200IsSuccess ==
    \A i \in Invocations :
        (/\ Done(i) /\ call[i].op = "getPlaceDetailsById"
         /\ reply[i].kind = "response" /\ reply[i].status = 200) =>
            /\ ~outcome[i].isError
            /\ LET place == reply[i].data.place
                   details == outcome[i].value
               IN /\ details.id = place.id
                  /\ details.formattedAddress = place.formattedAddress
                  /\ details.location = place.location
                  /\ details.displayName =
                       (IF place.displayName.has /\ place.displayName.v # ""
                        THEN place.displayName ELSE Undefined)
                  /\ details.types = (IF place.types.has THEN place.types.v ELSE <<>>)
                  /\ details.googleMapsLinks =
                       (IF place.googleMapsLinks.has THEN place.googleMapsLinks.v ELSE NoLinks)

(* C26: a distance matrix body with status OK is a success whose origin    *)
(* addresses, destination addresses and rows are the upstream's arrays,    *)
(* element for element and in order (the empty list for an array the body  *)
(* lacks); a body with any other status, or none, is the failure           *)
(* "Distance Matrix API failed with status: <status>".                     *)
C26_PassThroughOrStatus ==
    \A i \in Invocations :
        Answered200(i, "calculateDistanceMatrix") =>
            LET data == reply[i].data IN
            IF data.status = Some("OK")
            THEN /\ ~outcome[i].isError
                 /\ outcome[i].value.origin_addresses =
                        (IF data.origin_addresses.has THEN data.origin_addresses.v ELSE <<>>)
                 /\ outcome[i].value.destination_addresses =
                        (IF data.destination_addresses.has
                         THEN data.destination_addresses.v ELSE <<>>)
                 /\ outcome[i].value.rows = (IF data.rows.has THEN data.rows.v ELSE <<>>)
            ELSE /\ outcome[i].isError
                 /\ outcome[i].error =
                        "Distance Matrix API failed with status: "
                            \o (IF data.status.has THEN data.status.v ELSE "undefined")
                 /\ FlaggedError(i)
                 /\ Contains(Text(i), outcome[i].error)

\* a 2 x 2 grid with failed elements passed through as it came
C26_Witness ==
    /\ Answered200("inv1", "calculateDistanceMatrix")
    /\ reply["inv1"].data = Grid("mixed", 2, 2)
    /\ outcome["inv1"].value.rows = Grid("mixed", 2, 2).rows.v
    /\ outcome["inv1"].value.rows[1].elements.v[2].status = "NOT_FOUND"
    /\ outcome["inv1"].value.origin_addresses = <<"Origin 1", "Origin 2">>

\* the status OVER_QUERY_LIMIT carried by the failure
C26_FailureWitness ==
    /\ Answered200("inv1", "calculateDistanceMatrix")
    /\ reply["inv1"].data.status = Some("OVER_QUERY_LIMIT")
    /\ outcome["inv1"].error = "Distance Matrix API failed with status: OVER_QUERY_LIMIT"

-----------------------------------------------------------------------------
(* Reading a markdown rendering of a distance matrix by its headings: the  *)
(* "## Origin: " lines, and under each the "### > " lines up to the next   *)
(* origin or the closing rule.  An element's section is the text from its  *)
(* heading up to the next heading or the rule.                             *)

DistanceMarkdown(i) ==
    DistanceSuccess(i) /\ body[i].has /\ validated[i].response_format = "markdown"

OriginHeadings(starts, s) == InOrder({p \in starts : HasAt(s, p, "## Origin: ")})
ClosingRule(starts, s) == Least({p \in starts : HasAt(s, p, "---\n**Billing Note**")})
ElementHeadings(starts, s, lo, hi) == InOrder(LinesBetween(starts, s, lo, hi, "### > "))
SectionOf(starts, s, p) ==
    SubSeq(s, p, Least({q \in starts : q > p /\ (HasAt(s, q, "#") \/ HasAt(s, q, "---\n"))}) - 1)

\* the section the rendering writes for an element that shows the given lines
SectionText(destination, shown) == Join(<<"### > " \o destination>> \o shown \o <<"", "">>, "\n")

\* the rendering is grouped by origin, then by destination, in index order, and the
\* section of the element at row k, index n satisfies Shows(section, destination, element)
GroupedByOriginThenDestination(i, Shows(_, _, _)) ==
    LET s == body[i].v
        matrix == outcome[i].value
        starts == LineStarts(s)
        origins == OriginHeadings(starts, s)
        rowEnd(k) == IF k < Len(origins) THEN origins[k + 1] ELSE ClosingRule(starts, s)
        name(list, n) == IF n <= Len(list) THEN list[n] ELSE "undefined"
    IN /\ Len(origins) = Len(matrix.rows)
       /\ \A k \in 1..Len(origins) :
            LET elements == matrix.rows[k].elements.v
                headings == ElementHeadings(starts, s, origins[k], rowEnd(k))
            IN /\ HasAt(s, origins[k],
                        "## Origin: " \o name(matrix.origin_addresses, k) \o "\n\n")
               /\ Len(headings) = Len(elements)
               /\ \A n \in 1..Len(headings) :
                    Shows(SectionOf(starts, s, headings[n]),
                          name(matrix.destination_addresses, n), elements[n])

DistanceLine(e) ==
    "- **Distance**: " \o e.distance.v.text \o " (" \o ToString(e.distance.v.value) \o " meters)"
DurationLine(e) ==
    "- **Duration**: " \o e.duration.v.text \o " (" \o ToString(e.duration.v.value) \o " seconds)"
StatusLine(e) == "- **Status**: " \o e.status

\* an element shows something: its distance or duration when its status is OK, its
\* status otherwise
ShowsNumbersOrStatus(section, destination, e) ==
    /\ StartsWith(section, "### > " \o destination \o "\n")
    /\ IF e.status = "OK"
       THEN \/ e.distance.has /\ Contains(section, "\n" \o DistanceLine(e) \o "\n")
            \/ e.duration.has /\ Contains(section, "\n" \o DurationLine(e) \o "\n")
       ELSE Contains(section, "\n" \o StatusLine(e) \o "\n")

\* an element shows what it has: with status OK a line for its distance if it has one and
\* a line for its duration if it has one, and nothing if it has neither; its status
\* otherwise
ShowsWhatItHas(section, destination, e) ==
    section = SectionText(destination,
                          IF e.status = "OK"
                          THEN (IF e.distance.has THEN <<DistanceLine(e)>> ELSE <<>>)
                                \o (IF e.duration.has THEN <<DurationLine(e)>> ELSE <<>>)
                          ELSE <<StatusLine(e)>>)

(* C27, as claimed: the markdown rendering of a distance matrix is grouped *)
(* by origin and then by destination in index order, and every element's   *)
(* section has its distance or duration text when its status is OK, or its *)
(* status when it is not; no section is without both.                      *)
C27_EveryElementShown ==
    \A i \in Invocations :
        DistanceMarkdown(i) => GroupedByOriginThenDestination(i, ShowsNumbersOrStatus)

(* C27, amended: the markdown rendering of a distance matrix is grouped by *)
(* origin and then by destination in index order; the section of an        *)
(* element whose status is not OK is its heading and its status; that of   *)
(* an element whose status is OK is its heading, its distance line if it   *)
(* has a distance and its duration line if it has a duration, which is the *)
(* heading alone when the element has neither.                             *)
C27_ElementShowsWhatItHas ==
    \A i \in Invocations :
        DistanceMarkdown(i) => GroupedByOriginThenDestination(i, ShowsWhatItHas)

\* a 2 x 2 grid whose first column is OK without distance or duration: those two sections
\* are the heading alone, the other two have both lines
C27_Witness ==
    /\ DistanceMarkdown("inv1")
    /\ reply["inv1"].data = Grid("empty", 2, 2)
    /\ Contains(body["inv1"].v,
                "## Origin: Origin 2\n\n### > Destination 1\n\n### > Destination 2\n"
                    \o "- **Distance**: 2.2 km (2200 meters)\n"
                    \o "- **Duration**: 22 mins (1320 seconds)\n\n---")

-----------------------------------------------------------------------------
\* a place details invocation whose arguments the schema accepted
ValidatedPlaceRequest(i) ==
    /\ Started(i) /\ req[i].name = "google_maps_get_place_details"
    /\ PlaceDetailsInputSchema(req[i].arguments).success

(* C28: a place details invocation with accepted arguments issues one      *)
(* upstream request.  When place_id is a non-empty string it is the GET of *)
(* /places/<place_id>, with no body, whether or not a query was given, and *)
(* the query is nowhere in it; otherwise query is a non-empty string and   *)
(* the request is the POST of /places:searchText with the query as         *)
(* textQuery.                                                              *)
C28_PlaceIdTakesPrecedence ==
    \A i \in Invocations :
        ValidatedPlaceRequest(i) =>
            LET f == req[i].arguments.f IN
            /\ nreq[i] = 1
            /\ IF NonEmptyString(f.place_id)
               THEN /\ call[i].op = "getPlaceDetailsById"
                    /\ call[i].method = "GET"
                    /\ call[i].url = "https://places.googleapis.com/v1/places/" \o f.place_id.s
                    /\ call[i].params = <<>> /\ call[i].data = <<>>
                    /\ NonEmptyString(f.query) => ~Contains(call[i].url, f.query.s)
               ELSE /\ NonEmptyString(f.query)
                    /\ call[i].op = "searchAndGetPlaceDetails"
                    /\ call[i].method = "POST"
                    /\ call[i].url = "https://places.googleapis.com/v1/places:searchText"
                    /\ call[i].data[1] = Pair("textQuery", f.query.s)

\* place_id and query both given: the lookup by ID is the request
C28_Witness ==
    /\ ValidatedPlaceRequest("inv1")
    /\ req["inv1"].arguments.f.place_id = VStr("ChIJ1")
    /\ req["inv1"].arguments.f.query = VStr("cafe")
    /\ nreq["inv1"] = 1
    /\ call["inv1"].op = "getPlaceDetailsById"
    /\ call["inv1"].url = "https://places.googleapis.com/v1/places/ChIJ1"

\* an empty place_id with a query: the text search is the request
C28_SearchWitness ==
    /\ ValidatedPlaceRequest("inv1")
    /\ req["inv1"].arguments.f.place_id = VStr("")
    /\ req["inv1"].arguments.f.query = VStr("cafe")
    /\ call["inv1"].op = "searchAndGetPlaceDetails"

\* a place details invocation that ended with the place found
PlaceSuccess(i) ==
    /\ Done(i) /\ req[i].name = "google_maps_get_place_details"
    /\ nreq[i] = 1 /\ ~outcome[i].isError /\ ~FlaggedError(i)

\* the identifier the upstream request was made with
IdentifierUsed(i) ==
    IF call[i].op = "getPlaceDetailsById" THEN validated[i].place_id ELSE validated[i].query

(* C29: the metadata of a place details response with the place found has  *)
(* as its query the identifier the upstream request was made with: the     *)
(* place_id of a lookup by ID, the query of a text search.                 *)
C29_EchoIsIdentifierUsed ==
    \A i \in Invocations :
        PlaceSuccess(i) => resp[i].metadata.v.query = IdentifierUsed(i)

-----------------------------------------------------------------------------
\* the geocoding upstream answered 200 with body status OK
GeocodeStatusOk(i) ==
    Answered200(i, "geocodeAddress") /\ reply[i].data.status = Some("OK")

(* C30: for a geocoding body with status OK the client's outcome is a      *)
(* success only when the body has a results field.  Without one it is the  *)
(* failure "Geocoding failed with status: OK", which the handler returns   *)
(* flagged; with an empty results list it is the empty sequence, which the *)
(* handler returns as the "No Results Found" text for the address, not     *)
(* flagged.                                                                *)
C30_OkNeedsResultsField ==
    \A i \in Invocations :
        GeocodeStatusOk(i) =>
            /\ ~outcome[i].isError => reply[i].data.results.has
            /\ ~reply[i].data.results.has =>
                    /\ outcome[i].isError
                    /\ outcome[i].error = "Geocoding failed with status: OK"
                    /\ FlaggedError(i)
                    /\ Contains(Text(i), "Geocoding failed with status: OK")
            /\ (reply[i].data.results.has /\ reply[i].data.results.v = <<>>) =>
                    /\ ~outcome[i].isError /\ outcome[i].value = <<>>
                    /\ ~FlaggedError(i)
                    /\ StartsWith(Text(i), "No Results Found\n")
                    /\ Contains(Text(i), "No geocoding results found for: "
                                            \o validated[i].address)

\* status OK and no results field: the failure that carries OK
C30_Witness ==
    /\ GeocodeStatusOk("inv1")
    /\ ~reply["inv1"].data.results.has
    /\ outcome["inv1"].error = "Geocoding failed with status: OK"
    /\ FlaggedError("inv1")

\* status OK and an empty results list: the no-results text
C30_EmptyListWitness ==
    /\ GeocodeStatusOk("inv1")
    /\ reply["inv1"].data.results = Some(<<>>)
    /\ outcome["inv1"] = Ok(<<>>)
    /\ StartsWith(Text("inv1"), "No Results Found\n")

====
